---- MODULE Spec2Model ----
(***************************************************************************)
(* A model of dbman's connection registry (DBMan), of the SSH tunnels it   *)
(* establishes and of the dynamic result typing done by DBMan.Query.       *)
(***************************************************************************)
EXTENDS Integers, Sequences, FiniteSets, TLC

VARIABLES
    cfg,             \* d.cfg: the configured connections and tunnels
    current,         \* d.current: the current handle, NoHandle while unset (nil)
    currentName,     \* d.currentName
    activeQueriers,  \* d.activeQueriers: connection name -> handle
    activeTunnels,   \* d.activeTunnels: tunnel name -> tunnel
    pgpassword,      \* the PGPASSWORD environment variable
    sessions,        \* tunnel name -> number of transport sessions opened (ssh.Dial succeeded)
    listeners,       \* tunnel name -> number of local listeners bound (net.Listen succeeded)
    closedQueriers,  \* the handles Close() was called on
    closedTunnels,   \* the tunnels Close() was called on
    pending,         \* the result set the query model's database answers with
    catalog,         \* the information_schema of the database: tables and columns
    tun,             \* one Tunnel: its fields, its accept loop, its forwards and its Close
    displayCache,    \* pluginState.displayCache: connection name -> schemas shown
    tasks,           \* the goroutines the plugin's command handlers started
    cli,             \* the terminal front end: its loop, the line it read, what it did
    editor,          \* the editor plugin's DBRun command: what its last run did
    last             \* what the last call did and returned

vars == <<cfg, current, currentName, activeQueriers, activeTunnels, pgpassword,
          sessions, listeners, closedQueriers, closedTunnels, pending, catalog, tun,
          displayCache, tasks, cli, editor, last>>

----------------------------------------------------------------------------
(* Bounds of the model. *)

\* The model lets at most this many local listeners be bound per tunnel name.
MaxListeners == 2

\* The result sets of the query model have at most this many columns and rows.
MaxCols == 2

MaxRows == 2

\* The catalog of the metadata model has at most this many column rows.
MaxMetaCols == 2

\* The table names DescribeTable is called with have at most this many pieces.
MaxNameLen == 3

\* The catalog of the metadata model has at most this many tables.
MaxTables == 2

\* The UUID model has this many identifiers.
MaxUuids == 2

----------------------------------------------------------------------------
(* Maps, as Go's map[string]T: a function on the set of keys present. *)

Has(m, k) == k \in DOMAIN m

Put(m, k, v) == [x \in DOMAIN m \cup {k} |-> IF x = k THEN v ELSE m[x]]

EmptyMap == [x \in {} |-> 0]

----------------------------------------------------------------------------
(* Configuration: Config, Connection and SSHTunnel. *)

Connection(host, port, password, driver, tunnel) ==
    [Host |-> host, Port |-> port, Password |-> password, Driver |-> driver,
     Tunnel |-> tunnel]

SSHTunnel(host, port) == [Host |-> host, Port |-> port]

\* The configuration the registry is constructed with: a direct connection with
\* a configured password, two connections sharing the tunnel "bastion" (one
\* without a password), and a connection with another driver behind the same tunnel.
TheConfig ==
    [Connections |->
        [n \in {"direct", "viaA", "viaB", "legacy"} |->
            CASE n = "direct" -> Connection("db1", 5432, "cfgpw", "postgres", "")
              [] n = "viaA"   -> Connection("db2", 5432, "", "postgres", "bastion")
              [] n = "viaB"   -> Connection("db3", 5433, "cfgpw", "postgres", "bastion")
              [] n = "legacy" -> Connection("db4", 3306, "", "mysql", "bastion")],
     Tunnels |->
        [t \in {"bastion"} |-> SSHTunnel("bastion.example", 22)]]

\* The names SwitchConnection is called with: the configured ones and one that is not.
CallNames == DOMAIN TheConfig.Connections \cup {"nope"}

TunnelNames == DOMAIN TheConfig.Tunnels

----------------------------------------------------------------------------
(* Handles and tunnels. *)

NoHandle == [conn |-> "", host |-> "", port |-> 0, password |-> ""]

\* dbMeta{db}: the handle postgresOpen returns for the (per-call) connection spec.
postgresOpen(name, conn) ==
    [conn |-> name, host |-> conn.Host, port |-> conn.Port, password |-> conn.Password]

\* The OS-assigned port of the k-th listener bound for a tunnel name.
LocalPort(t, k) == 50000 + k

\* The Tunnel NewTunnel returns: its remote target is the host:port of the
\* connection it was created for, its listener is on an OS-assigned local port.
NewTunnelValue(t, host, port, k) ==
    [name |-> t, remoteHost |-> host, remotePort |-> port,
     localHost |-> "127.0.0.1", localPort |-> LocalPort(t, k)]

\* t.client.Dial("tcp", t.remoteHost): where forward sends every stream the
\* tunnel's listener accepts.
ForwardTarget(tunnel) == [host |-> tunnel.remoteHost, port |-> tunnel.remotePort]

\* How a NewTunnel call can end: before the listener is bound, at net.Listen,
\* at ssh.Dial (the listener is bound by then), or with a tunnel.
TunnelOutcomes == {"early_error", "listen_error", "dial_error", "ok"}

ListenerBound(outcome) == outcome \in {"dial_error", "ok"}

SessionOpened(outcome) == outcome = "ok"

----------------------------------------------------------------------------
(* Result sets and query results. *)

\* What the current connection answers to a query: whether Query, ColumnTypes
\* or the iteration (rows.Err) fails, the columns (name and database type
\* name) and the rows the iteration delivers, each a sequence of driver values.
ResultSet(fail, cols, rows) == [fail |-> fail, cols |-> cols, rows |-> rows]

NoResultSet == ResultSet("none", <<>>, <<>>)

Column(name, typeName) == [name |-> name, typeName |-> typeName]

\* A *QueryResult: nil, or the column names and the rows.
QueryResult(isNil, columns, rows) == [isNil |-> isNil, Columns |-> columns, Rows |-> rows]

NilResult == QueryResult(TRUE, <<>>, <<>>)

----------------------------------------------------------------------------
(* The catalog of the database and the metadata results. *)

\* A name that is split on '.' is a sequence of pieces: a piece is the
\* separator or a text without a '.' in it.
Sep == "."

Public == <<"public">>

\* sql.NullString
NullString(valid, str) == [Valid |-> valid, String |-> str]

\* A row of information_schema.tables.
TableRow(schema, name, type) ==
    [table_schema |-> schema, table_name |-> name, table_type |-> type]

\* A row of information_schema.columns.
ColumnRow(schema, table, ordinal, name, dataType, default, nullable, udtSchema, udtName) ==
    [table_schema |-> schema, table_name |-> table, ordinal_position |-> ordinal,
     column_name |-> name, data_type |-> dataType, column_default |-> default,
     is_nullable |-> nullable, udt_schema |-> udtSchema, udt_name |-> udtName]

\* The database: its tables, its columns, and whether it fails a query
\* ("query") or the iteration over the rows ("rows").
EmptyCatalog == [tables |-> {}, columns |-> {}, fail |-> "none"]

ColumnSchema(name, type, attrs) == [Name |-> name, Type |-> type, Attrs |-> attrs]

\* A *TableSchema: nil, or the name and the columns.
TableSchema(name, columns) == [isNil |-> FALSE, Name |-> name, Columns |-> columns]

NoTableSchema == [isNil |-> TRUE, Name |-> <<>>, Columns |-> <<>>]

\* A query sent to the database: which statement, and its arguments.
Issued(sql, args) == [sql |-> sql, args |-> args]

----------------------------------------------------------------------------
(* One tunnel. *)

\* The fields of SSHTunnel that NewTunnel reads to choose the host key check and
\* the authentication.
TunnelOptions(hostPublicKeyFile, disableVerifyKnownHost, authMethod, privateKeyPassphrase) ==
    [HostPublicKeyFile |-> hostPublicKeyFile,
     DisableVerifyKnownHost |-> disableVerifyKnownHost,
     AuthMethod |-> authMethod,
     PrivateKeyPassphrase |-> privateKeyPassphrase]

\* What NewTunnel meets outside the program: whether the pinned host key file
\* reads and parses, what the private key file holds, what the prompter
\* answers to each request, whether the agent socket opens, whether the local
\* port binds and whether the bastion accepts the connection.
Surroundings(hostKeyFileOk, key, answers, agentOk, listenOk, bastionOk) ==
    [hostKeyFileOk |-> hostKeyFileOk, key |-> key, answers |-> answers,
     agentOk |-> agentOk, listenOk |-> listenOk, bastionOk |-> bastionOk]

\* What Accept of the TCP listener returns as an error: always a *net.OpError.
AcceptError(opErr, temporary) == [opErr |-> opErr, temporary |-> temporary]

\* err == nil.
NoAcceptError == AcceptError(FALSE, FALSE)

\* The closer id of the local listener in the order Close closes things.
ListenerId == 0

\* Before NewTunnel is called: the Tunnel struct with no field set, no accept
\* loop and no Close in progress.
NoTunnel ==
    [spec |-> TunnelOptions("", FALSE, "", ""),
     env |-> Surroundings(TRUE, "plain", <<>>, TRUE, TRUE, TRUE),
     outcome |-> "none", hostKey |-> "", signer |-> "none", prompts |-> 0,
     listener |-> "none", session |-> FALSE,
     connections |-> <<>>, conns |-> <<>>, mu |-> "free",
     acceptPc |-> "idle", held |-> 0, acceptErr |-> NoAcceptError, logged |-> 0,
     closePc |-> "idle", closing |-> <<>>, closeIdx |-> 0,
     closeLog |-> <<>>, closeFailed |-> {}]

----------------------------------------------------------------------------
(* What a call did and returned. *)

\* The record of a call that did nothing yet: no NewTunnel call, no prompt, no
\* read of the environment, no driver open, no ping, no method of a handle.
Call(op, name) ==
    [op |-> op, name |-> name, err |-> "nil",
     newTunnel |-> FALSE, prompted |-> FALSE, envRead |-> FALSE,
     prompts |-> 0, echos |-> <<>>, promptFailed |-> FALSE,
     names |-> <<>>, active |-> <<>>,
     arg |-> <<>>, build |-> "", issued |-> <<>>, schema |-> NoTableSchema, tables |-> <<>>,
     schemas |-> <<>>, calls |-> <<>>, cache |-> <<>>,
     opened |-> FALSE, pinged |-> FALSE, touched |-> NoHandle,
     closeErrors |-> {}, result |-> "none", input |-> NoResultSet, query |-> NilResult,
     rowsObtained |-> FALSE, rowsClosed |-> FALSE, scans |-> 0]

\* newCLI: the terminal front end before run; it has read no line.
newCLI ==
    [pc |-> "start", running |-> TRUE, read |-> "", line |-> <<>>, args |-> <<>>,
     kind |-> "", handled |-> "", printed |-> "", fault |-> ""]

\* The DBRun command before it has run.
NoCommand == [handled |-> "", err |-> "", wrote |-> ""]

Start ==
    /\ cfg = TheConfig
    /\ current = NoHandle
    /\ currentName = ""
    /\ activeQueriers = EmptyMap
    /\ activeTunnels = EmptyMap
    /\ pgpassword \in {"", "envpw"}
    /\ sessions = [t \in TunnelNames |-> 0]
    /\ listeners = [t \in TunnelNames |-> 0]
    /\ closedQueriers = {}
    /\ closedTunnels = {}
    /\ last = Call("New", "")

Init ==
    /\ Start
    /\ pending = NoResultSet
    /\ catalog = EmptyCatalog
    /\ tun = NoTunnel
    /\ displayCache = EmptyMap
    /\ tasks = <<>>
    /\ cli = newCLI
    /\ editor = NoCommand

----------------------------------------------------------------------------
(* DBMan.SwitchConnection *)

ZeroConnection == Connection("", 0, "", "", "")

\* conn, ok := d.cfg.Connections[connName]: a copy of the stored value, the
\* zero value when the key is missing.
LookupConnection(c, n) ==
    IF Has(c.Connections, n) THEN c.Connections[n] ELSE ZeroConnection

\* A lookup that reports every name as configured.
ConfiguredAlways(c, n) == TRUE

Configured(c, n) == Has(c.Connections, n)

\* A lookup that never finds the cached handle.
CachedQuerierNever(aq, n) == FALSE

\* querier, ok := d.activeQueriers[connName]
CachedQuerier(aq, n) == Has(aq, n)

\* A lookup that never finds the cached tunnel.
CachedTunnelNever(at, t) == FALSE

\* tunnel, ok := d.activeTunnels[conn.Tunnel]
CachedTunnel(at, t) == Has(at, t)

\* The configuration had conn been a pointer to the stored spec.
StoredConfigWritten(c, n, conn) == [c EXCEPT !.Connections[n] = conn]

\* The configuration after a call that worked on the copy conn of the spec
\* stored under n: conn is a value, so the stored spec is not written.
StoredConfig(c, n, conn) == c

\* A registration made before the ping is looked at.
RegisterQuerierBeforePing(aq, n, q, pingOk) == Put(aq, n, q)

\* The connection cache after the ping: the handle is registered only when
\* PingContext returned no error.
RegisterQuerier(aq, n, q, pingOk) == IF pingOk THEN Put(aq, n, q) ELSE aq

\* A current pointer assigned before the ping is looked at.
CurrentBeforePing(cur, q, pingOk) == q

\* d.current after the ping: reassigned only when PingContext returned no error.
CurrentAfterPing(cur, q, pingOk) == IF pingOk THEN q ELSE cur

\* The tunnel cache after NewTunnel returned tunnel without an error.
RegisterTunnel(at, t, tunnel) == Put(at, t, tunnel)

\* A connection left at its configured host and port.
PointAtConfigured(conn, tunnel) == conn

\* conn.Host, conn.Port pointed at the local end of the tunnel.
PointAtTunnel(conn, tunnel) ==
    [conn EXCEPT !.Host = tunnel.localHost, !.Port = tunnel.localPort]

\* The state and the call record a SwitchConnection call ends with.
Outcome(c, cur, curName, aq, at, ses, lis, l) ==
    [cfg |-> c, current |-> cur, currentName |-> curName, activeQueriers |-> aq,
     activeTunnels |-> at, sessions |-> ses, listeners |-> lis,
     last |-> l]

\* Lines 110-137: open by driver, ping, register. conn is the per-call copy,
\* at/ses/lis what the tunnel stage left, l the call record so far.
OpenAndPing(n, conn, at, ses, lis, l, openOk, pingOk) ==
    LET stored == StoredConfig(cfg, n, conn)
        keep(l2) == Outcome(stored, current, currentName, activeQueriers,
                            at, ses, lis, l2)
    IN  IF conn.Driver = "postgres"
        THEN IF ~openOk
             THEN keep([l EXCEPT !.opened = TRUE, !.err = "open"])
             ELSE LET q == postgresOpen(n, conn)
                      aq == RegisterQuerier(activeQueriers, n, q, pingOk)
                      l2 == [l EXCEPT !.opened = TRUE, !.pinged = TRUE, !.touched = q]
                      cur == CurrentAfterPing(current, q, pingOk)
                  IN  IF ~pingOk
                      THEN Outcome(stored, cur, currentName, aq, at, ses, lis,
                                   [l2 EXCEPT !.err = "ping"])
                      ELSE Outcome(stored, cur, n, aq, at, ses, lis, l2)
        ELSE keep([l EXCEPT !.err = "unsupported_driver"])

\* A resolution that asks the environment before the configured password.
SecretSourceEnvFirst(password, env) ==
    IF env # "" THEN "environment"
    ELSE IF password # "" THEN "configured" ELSE "prompter"

\* Where the password comes from: the configured one when it is not empty,
\* else PGPASSWORD when it is not empty, else the prompter.
SecretSource(password, env) ==
    IF password # "" THEN "configured"
    ELSE IF env # "" THEN "environment" ELSE "prompter"

\* prompter("", "", []string{"database password: "}, []bool{false}): the call
\* record after one more call of the prompter.
Prompted(l, promptAnswer) ==
    [l EXCEPT !.prompted = TRUE, !.prompts = @ + 1, !.echos = <<FALSE>>,
              !.promptFailed = (promptAnswer = "error")]

\* Lines 97-108: the password of the per-call copy.
ResolvePassword(n, conn, at, ses, lis, l, promptAnswer, openOk, pingOk) ==
    LET source == SecretSource(conn.Password, pgpassword)
    IN  CASE source = "configured" ->
                OpenAndPing(n, conn, at, ses, lis, l, openOk, pingOk)
          [] source = "environment" ->
                OpenAndPing(n, [conn EXCEPT !.Password = pgpassword], at, ses, lis,
                            [l EXCEPT !.envRead = TRUE], openOk, pingOk)
          [] source = "prompter" ->
                (IF promptAnswer = "error"
                 THEN Outcome(StoredConfig(cfg, n, conn), current, currentName,
                              activeQueriers, at, ses, lis,
                              [Prompted([l EXCEPT !.envRead = TRUE], promptAnswer)
                                  EXCEPT !.err = "prompt"])
                 ELSE OpenAndPing(n, [conn EXCEPT !.Password = promptAnswer], at, ses, lis,
                                  Prompted([l EXCEPT !.envRead = TRUE], promptAnswer),
                                  openOk, pingOk))

ZeroSSHTunnel == SSHTunnel("", 0)

\* tunnelCfg := d.cfg.Tunnels[conn.Tunnel]: the zero value when the key is missing.
LookupTunnel(c, t) == IF Has(c.Tunnels, t) THEN c.Tunnels[t] ELSE ZeroSSHTunnel

\* How NewTunnel ends for a tunnel spec when the environment would let it end
\* with outcome: ssh.Dial to the address ":0" of the zero spec cannot succeed.
NewTunnelOutcome(tunnelCfg, outcome) ==
    IF outcome = "ok" /\ (tunnelCfg.Host = "" \/ tunnelCfg.Port = 0)
    THEN "dial_error" ELSE outcome

\* Lines 77-95: establish or reuse the tunnel of the connection.
ResolveTunnel(n, conn, l, envOut, promptAnswer, openOk, pingOk) ==
    IF conn.Tunnel # ""
    THEN IF ~CachedTunnel(activeTunnels, conn.Tunnel)
         THEN LET t == conn.Tunnel
                  tunnelOut == NewTunnelOutcome(LookupTunnel(cfg, t), envOut)
                  lis == [listeners EXCEPT ![t] = @ + (IF ListenerBound(tunnelOut) THEN 1 ELSE 0)]
                  ses == [sessions EXCEPT ![t] = @ + (IF SessionOpened(tunnelOut) THEN 1 ELSE 0)]
                  l2 == [l EXCEPT !.newTunnel = TRUE]
              IN  IF tunnelOut # "ok"
                  THEN Outcome(cfg, current, currentName, activeQueriers, activeTunnels,
                               ses, lis, [l2 EXCEPT !.err = "tunnel"])
                  ELSE LET tunnel == NewTunnelValue(t, conn.Host, conn.Port, lis[t])
                       IN  ResolvePassword(n, PointAtTunnel(conn, tunnel),
                                           RegisterTunnel(activeTunnels, t, tunnel),
                                           ses, lis, l2, promptAnswer, openOk, pingOk)
         ELSE ResolvePassword(n, PointAtTunnel(conn, activeTunnels[conn.Tunnel]),
                              activeTunnels, sessions, listeners, l,
                              promptAnswer, openOk, pingOk)
    ELSE ResolvePassword(n, conn, activeTunnels, sessions, listeners, l,
                         promptAnswer, openOk, pingOk)

\* The whole call.
SwitchOutcome(n, tunnelOut, promptAnswer, openOk, pingOk) ==
    LET l == Call("SwitchConnection", n)
        conn == LookupConnection(cfg, n)
    IN  IF ~Configured(cfg, n)
        THEN Outcome(cfg, current, currentName, activeQueriers, activeTunnels,
                     sessions, listeners, [l EXCEPT !.err = "not_configured"])
        ELSE IF CachedQuerier(activeQueriers, n)
             THEN Outcome(cfg, activeQueriers[n], n, activeQueriers, activeTunnels,
                          sessions, listeners, l)
             ELSE ResolveTunnel(n, conn, l, tunnelOut, promptAnswer, openOk, pingOk)

\* Where the environment makes a call fail, if the call gets there: in
\* NewTunnel (three ways), at the prompter, at postgresOpen, at the ping.
FailurePoints ==
    {"none", "early_error", "listen_error", "dial_error", "prompt", "open", "ping"}

TunnelOutcomeAt(failAt) == IF failAt \in TunnelOutcomes THEN failAt ELSE "ok"

\* The model stops binding listeners for a tunnel name at MaxListeners.
WithinBounds(o) == \A t \in DOMAIN o.listeners : o.listeners[t] <= MaxListeners

\* SwitchConnection(n, prompter) on the registry, for some n of names and some
\* place of failurePoints where the surroundings make it fail.
SwitchConnectionBy(names, failurePoints) ==
    \E n \in names, failAt \in failurePoints :
        \E o \in {SwitchOutcome(n, TunnelOutcomeAt(failAt),
                                IF failAt = "prompt" THEN "error" ELSE "typed",
                                failAt # "open", failAt # "ping")} :
            /\ WithinBounds(o)
            /\ cfg' = o.cfg
            /\ current' = o.current
            /\ currentName' = o.currentName
            /\ activeQueriers' = o.activeQueriers
            /\ activeTunnels' = o.activeTunnels
            /\ sessions' = o.sessions
            /\ listeners' = o.listeners
            /\ last' = o.last
            /\ UNCHANGED <<pgpassword, closedQueriers, closedTunnels, pending, catalog,
                           tun, displayCache>>

SwitchConnectionOn(names, failurePoints) ==
    SwitchConnectionBy(names, failurePoints) /\ UNCHANGED <<tasks, cli, editor>>

SwitchConnection == SwitchConnectionOn(CallNames, FailurePoints)

----------------------------------------------------------------------------
(* DBMan.Close *)

Range(f) == {f[x] : x \in DOMAIN f}

\* The orders a range over a Go map can visit its values in.
Orders(S) ==
    {seq \in [1..Cardinality(S) -> S] : \A x \in S : \E i \in DOMAIN seq : seq[i] = x}

\* A loop that returns at the first Close that fails.
RECURSIVE CloseEachAbort(_, _)
CloseEachAbort(order, failing) ==
    IF order = <<>> THEN {}
    ELSE IF Head(order) \in failing THEN {Head(order)}
    ELSE {Head(order)} \cup CloseEachAbort(Tail(order), failing)

\* for _, q := range ... { q.Close() }: the values Close was called on, when
\* the calls on the values in failing return an error. The error is dropped.
RECURSIVE CloseEach(_, _)
CloseEach(order, failing) ==
    IF order = <<>> THEN {}
    ELSE {Head(order)} \cup CloseEach(Tail(order), failing)

\* A Close that drops the handles it closed from the connection cache.
CacheEmptiedByClose(aq) == EmptyMap

\* Close ranges over d.activeQueriers and assigns nothing to it.
CacheAfterClose(aq) == aq

CloseBy ==
    \E qOrder \in Orders(Range(activeQueriers)), tOrder \in Orders(Range(activeTunnels)),
       qFailing \in SUBSET Range(activeQueriers), tFailing \in SUBSET Range(activeTunnels) :
        /\ closedQueriers' = closedQueriers \cup CloseEach(qOrder, qFailing)
        /\ closedTunnels' = closedTunnels \cup CloseEach(tOrder, tFailing)
        /\ last' = [Call("Close", "") EXCEPT
                        !.closeErrors = {q.conn : q \in qFailing} \cup {t.name : t \in tFailing}]
        /\ activeQueriers' = CacheAfterClose(activeQueriers)
        /\ UNCHANGED <<cfg, current, currentName, activeTunnels,
                       pgpassword, sessions, listeners, pending, catalog, tun,
                       displayCache, tasks>>

Close == CloseBy /\ UNCHANGED <<cli, editor>>

----------------------------------------------------------------------------
(* dbMeta: ListTables, ListTablesInSchema, DescribeTable *)

\* The repository holds the metadata file in two versions.
Builds == {"meta.go", "part_005"}

\* strings.Split(name, "."): the segments between the separators, one more
\* than there are separators (so one empty segment for the empty name).
RECURSIVE Split(_)
Split(name) ==
    IF name = <<>> THEN << <<>> >>
    ELSE LET rest == Split(Tail(name))
         IN  IF Head(name) = Sep
             THEN << <<>> >> \o rest
             ELSE << <<Head(name)>> \o Head(rest) >> \o Tail(rest)

QualifiedName(ok, schema, table) == [ok |-> ok, schema |-> schema, table |-> table]

\* A switch that takes the first two of three or more segments.
ParseTableNameLenient(parts) ==
    CASE Len(parts) >= 2 -> QualifiedName(TRUE, parts[1], parts[2])
      [] Len(parts) = 1 -> QualifiedName(TRUE, Public, parts[1])
      [] OTHER -> QualifiedName(FALSE, <<>>, <<>>)

\* switch len(parts): schema and table of two segments, "public" and the
\* table of one, not ok for any other number.
ParseTableName(parts) ==
    CASE Len(parts) = 2 -> QualifiedName(TRUE, parts[1], parts[2])
      [] Len(parts) = 1 -> QualifiedName(TRUE, Public, parts[1])
      [] OTHER -> QualifiedName(FALSE, <<>>, <<>>)

\* A result named as the caller named the table.
ReportedNameAsGiven(name, table) == name

\* result := TableSchema{Name: table}
ReportedName(name, table) == table

\* ORDER BY ordinal_position
RECURSIVE ByOrdinal(_)
ByOrdinal(rows) ==
    IF rows = {} THEN <<>>
    ELSE LET first == CHOOSE r \in rows :
                        \A o \in rows : r.ordinal_position <= o.ordinal_position
         IN  <<first>> \o ByOrdinal(rows \ {first})

\* ... FROM information_schema.columns WHERE table_schema = $1 AND
\* table_name = $2 ORDER BY ordinal_position
ColumnsOf(cat, schema, table) ==
    ByOrdinal({r \in cat.columns : r.table_schema = schema /\ r.table_name = table})

ParsesYesOrNo(str) == str \in {"YES", "yes", "NO", "no"}

parseYesOrNo(str) == str \in {"YES", "yes"}

\* Whether rows.Scan takes the row: yesOrNo.Scan fails on any other text.
ScansColumn(build, row) == build = "meta.go" => ParsesYesOrNo(row.is_nullable)

\* if nullable (meta.go), if nullable == "YES" (part_005)
Nullable(build, row) ==
    IF build = "meta.go" THEN parseYesOrNo(row.is_nullable) ELSE row.is_nullable = "YES"

\* if col.Type == "USER-DEFINED" { col.Type = ... }
ColumnType(build, row) ==
    IF row.data_type = "USER-DEFINED"
    THEN IF build = "meta.go" THEN row.udt_schema \o "." \o row.udt_name ELSE row.udt_name
    ELSE row.data_type

\* An attribute list that starts with the nullability tag.
AttrsNullabilityFirst(default, nullable) ==
    <<IF nullable THEN "NULL" ELSE "NOT NULL">>
        \o (IF default.Valid THEN <<"DEFAULT " \o default.String>> ELSE <<>>)

\* col.Attrs: "DEFAULT <expr>" appended when the default is not null, then
\* "NULL" or "NOT NULL" appended.
Attrs(default, nullable) ==
    (IF default.Valid THEN <<"DEFAULT " \o default.String>> ELSE <<>>)
        \o <<IF nullable THEN "NULL" ELSE "NOT NULL">>

ColumnOf(build, row) ==
    ColumnSchema(row.column_name, ColumnType(build, row),
                 Attrs(row.column_default, Nullable(build, row)))

\* dbMeta.DescribeTable on the call record l.
dbMetaDescribeTable(cat, build, name, l) ==
    LET q == ParseTableName(Split(name))
        l1 == [l EXCEPT !.build = build]
        l2 == [l1 EXCEPT !.issued = Append(@, Issued("columns", <<q.schema, q.table>>))]
        rows == ColumnsOf(cat, q.schema, q.table)
    IN  IF ~q.ok THEN [l1 EXCEPT !.err = "invalid_table_name"]
        ELSE IF cat.fail = "query" THEN [l2 EXCEPT !.err = "db"]
        ELSE IF \E i \in DOMAIN rows : ~ScansColumn(build, rows[i])
             THEN [l2 EXCEPT !.err = "scan"]
        ELSE [l2 EXCEPT !.result = "value",
                        !.schema = TableSchema(ReportedName(name, q.table),
                                               [i \in DOMAIN rows |-> ColumnOf(build, rows[i])]),
                        !.err = IF cat.fail = "rows" THEN "rows" ELSE "nil"]

\* The collation of the names of the model.
NameOrder ==
    << <<"pg_", "catalog">>, <<"pg_class">>, Public, <<"t">>, <<"v">> >>

Rank(name) == CHOOSE i \in DOMAIN NameOrder : NameOrder[i] = name

\* ORDER BY table_schema, table_name
RECURSIVE ByName(_)
ByName(rows) ==
    IF rows = {} THEN <<>>
    ELSE LET before(a, b) ==
                \/ Rank(a.table_schema) < Rank(b.table_schema)
                \/ a.table_schema = b.table_schema /\ Rank(a.table_name) <= Rank(b.table_name)
             first == CHOOSE r \in rows : \A o \in rows : before(r, o)
         IN  <<first>> \o ByName(rows \ {first})

\* table_schema NOT LIKE 'pg_%' AND table_schema <> 'information_schema'
NotSystemSchema(schema) ==
    /\ ~(schema # <<>> /\ Head(schema) = "pg_")
    /\ schema # <<"information_schema">>

\* The rows the statement of ListTablesInSchema selects: part_005 asks for
\* table_type = 'BASE TABLE', meta.go does not.
TablesInSchema(cat, build, schema) ==
    ByName({r \in cat.tables :
                /\ r.table_schema = schema
                /\ build = "part_005" => r.table_type = "BASE TABLE"})

\* dbMeta.ListTablesInSchema on the call record l.
dbMetaListTablesInSchema(cat, build, schema, l) ==
    LET l2 == [l EXCEPT !.build = build,
                        !.issued = Append(@, Issued("tables_in_schema", <<schema>>))]
        rows == TablesInSchema(cat, build, schema)
    IN  IF cat.fail = "query" THEN [l2 EXCEPT !.err = "db"]
        ELSE [l2 EXCEPT !.result = "value",
                        !.tables = [i \in DOMAIN rows |-> rows[i].table_name],
                        !.err = IF cat.fail = "rows" THEN "rows" ELSE "nil"]

\* dbMeta.ListTables on the call record l: the tables of "public" in
\* part_005; in meta.go format('%s.%s', table_schema, table_name) of the
\* tables of every schema that is not a system schema, rows.Err() not looked at.
dbMetaListTables(cat, build, l) ==
    IF build = "part_005"
    THEN dbMetaListTablesInSchema(cat, build, Public, l)
    ELSE LET l2 == [l EXCEPT !.build = build,
                             !.issued = Append(@, Issued("all_tables", <<>>))]
             rows == ByName({r \in cat.tables : NotSystemSchema(r.table_schema)})
         IN  IF cat.fail = "query" THEN [l2 EXCEPT !.err = "db"]
             ELSE [l2 EXCEPT !.result = "value",
                             !.tables = [i \in DOMAIN rows |->
                                            rows[i].table_schema \o <<Sep>> \o rows[i].table_name]]

----------------------------------------------------------------------------
(* The calls delegated to the current connection. *)

\* A check that never sees the unset current connection.
NoActiveConnectionNever(cur) == FALSE

\* d.current == nil
NoActiveConnection(cur) == cur = NoHandle

\* ListTables, ListSchemas, DescribeTable: an error without a current
\* connection, otherwise what the current connection's method returns.
Delegated(op, cur, dbOk) ==
    IF NoActiveConnection(cur)
    THEN [Call(op, "") EXCEPT !.err = "no_active_connection"]
    ELSE [Call(op, "") EXCEPT !.touched = cur,
                              !.err = IF dbOk THEN "nil" ELSE "db",
                              !.result = IF dbOk THEN "value" ELSE "none"]

\* Stats has no error to return: the zero sql.DBStats without a current connection.
StatsOutcome(cur) ==
    IF NoActiveConnection(cur)
    THEN [Call("Stats", "") EXCEPT !.result = "zero_stats"]
    ELSE [Call("Stats", "") EXCEPT !.touched = cur, !.result = "value"]

Unchanged == UNCHANGED <<cfg, current, currentName, activeQueriers, activeTunnels,
                         pgpassword, sessions, listeners, closedQueriers, closedTunnels,
                         pending, catalog, tun, displayCache, tasks, cli, editor>>

\* DBMan.ListTables(schema)
ListTablesOutcome(cur, cat, build, schema) ==
    LET l == [Call("ListTables", "") EXCEPT !.arg = schema]
    IN  IF NoActiveConnection(cur) THEN [l EXCEPT !.err = "no_active_connection"]
        ELSE IF schema # <<>>
             THEN dbMetaListTablesInSchema(cat, build, schema, [l EXCEPT !.touched = cur])
             ELSE dbMetaListTables(cat, build, [l EXCEPT !.touched = cur])

ListTablesOn(schemas) ==
    /\ \E schema \in schemas, build \in Builds :
            last' = ListTablesOutcome(current, catalog, build, schema)
    /\ Unchanged

ListTables == ListTablesOn({<<>>})

ListSchemas == \E dbOk \in BOOLEAN : last' = Delegated("ListSchemas", current, dbOk) /\ Unchanged

\* DBMan.DescribeTable(name)
DescribeTableOutcome(cur, cat, build, name) ==
    LET l == [Call("DescribeTable", "") EXCEPT !.arg = name]
    IN  IF NoActiveConnection(cur) THEN [l EXCEPT !.err = "no_active_connection"]
        ELSE dbMetaDescribeTable(cat, build, name, [l EXCEPT !.touched = cur])

DescribeTableOn(names) ==
    /\ \E name \in names, build \in Builds :
            last' = DescribeTableOutcome(current, catalog, build, name)
    /\ Unchanged

DescribeTable == DescribeTableOn({<<"t">>})

Stats == last' = StatsOutcome(current) /\ Unchanged

----------------------------------------------------------------------------
(* Driver values and the typed values Query decodes them into. *)

\* A driver.Value: nil, an int64, a string or a bool.
DriverValue(kind, i, str, b) == [kind |-> kind, i |-> i, s |-> str, b |-> b]

DriverNil == DriverValue("nil", 0, "", FALSE)

DriverInt(i) == DriverValue("int64", i, "", FALSE)

DriverString(str) == DriverValue("string", 0, str, FALSE)

DriverBool(b) == DriverValue("bool", 0, "", b)

\* A []byte, given by its bytes.
DriverBytes(data) == [kind |-> "bytes", i |-> 0, s |-> "", b |-> FALSE, data |-> data]

\* A string given by the codes of its characters.
DriverChars(data) == [kind |-> "chars", i |-> 0, s |-> "", b |-> FALSE, data |-> data]

\* A scan target and, copied out of it, a value of a result row: the Go type
\* (tag), the validity flag of the null-aware types, and the payload. For the
\* fallback target (*interface{}) kind is the kind of the driver value held.
Value(tag, valid, kind, i, str, b) ==
    [tag |-> tag, valid |-> valid, kind |-> kind, i |-> i, s |-> str, b |-> b]

\* strconv.FormatInt(i, 10)
Digit(d) ==
    CASE d = 0 -> "0" [] d = 1 -> "1" [] d = 2 -> "2" [] d = 3 -> "3" [] d = 4 -> "4"
      [] d = 5 -> "5" [] d = 6 -> "6" [] d = 7 -> "7" [] d = 8 -> "8" [] d = 9 -> "9"

RECURSIVE FormatNat(_)
FormatNat(n) == IF n < 10 THEN Digit(n) ELSE FormatNat(n \div 10) \o Digit(n % 10)

FormatInt(i) == IF i < 0 THEN "-" \o FormatNat(-i) ELSE FormatNat(i)

\* strconv.ParseInt(s, 10, bits) on the strings of the model: the decimal
\* strings parse, the others are a syntax error.
ParsesAsInt(str) == \E i \in {-1, 0, 1, 7, 40000} : str = FormatInt(i)

ParseInt(str) == CHOOSE i \in {-1, 0, 1, 7, 40000} : str = FormatInt(i)

\* strconv.ParseBool
ParsesAsBool(str) ==
    str \in {"1", "t", "T", "TRUE", "true", "True", "0", "f", "F", "FALSE", "false", "False"}

ParseBool(str) == str \in {"1", "t", "T", "TRUE", "true", "True"}

\* A conversion that keeps out-of-range numbers at the nearest limit.
Int16Clamped(i) == IF i > 32767 THEN 32767 ELSE IF i < -32768 THEN -32768 ELSE i

\* int16(rv): the low 16 bits, as a signed number.
Int16Of(i) == LET m == i % 65536 IN IF m >= 32768 THEN m - 65536 ELSE m

InInt32(i) == -2147483647 - 1 <= i /\ i <= 2147483647

\* asString(src) of database/sql, for a non-nil driver value.
AsString(v) ==
    CASE v.kind = "string" -> v.s
      [] v.kind = "int64"  -> FormatInt(v.i)
      [] v.kind = "bool"   -> IF v.b THEN "true" ELSE "false"

----------------------------------------------------------------------------
(* Lines 207-243: the scan target of a column, chosen by its type name. *)

\* strings.ToUpper on the type names of the model.
ToUpper(str) ==
    CASE str = "int2" -> "INT2"
      [] str = "text" -> "TEXT"
      [] str = "Bool" -> "BOOL"
      [] str = "bigint" -> "BIGINT"
      [] str = "uuid" -> "UUID"
      [] OTHER -> str

ScannerKind(typeName) ==
    LET up == ToUpper(typeName)
    IN  CASE up \in {"CHARACTER", "CHAR", "CHARACTER VARYING", "VARCHAR", "NVARCHAR", "TEXT"}
                -> "nullString"
          [] up \in {"BOOL", "BOOLEAN"} -> "nullBool"
          [] up \in {"BIGINT", "INT8", "BIGSERIAL", "SERIAL8", "INTERVAL"} -> "nullInt64"
          [] up \in {"INTEGER", "INT", "INT4", "SERIAL", "SERIAL4"} -> "nullInt32"
          [] up \in {"SMALLINT", "INT2", "SMALLSERIAL", "SERIAL2"} -> "nullInt16"
          [] up \in {"DOUBLE", "FLOAT8", "NUMERIC", "DECIMAL"} -> "nullFloat64"
          [] up \in {"REAL", "FLOAT4"} -> "nullFloat32"
          [] up \in {"TIMESTAMP", "TIMESTAMPTZ", "TIME", "TIMETZ", "DATE"} -> "nullTime"
          [] up = "UUID" -> "uuidVal"
          [] up = "ARRAY" -> "array"
          [] OTHER -> "interface"

\* A uuidVal: the 16 bytes and the validity flag.
UuidValue(valid, bytes) ==
    [tag |-> "uuidVal", valid |-> valid, kind |-> "uuid", i |-> 0, s |-> "", b |-> FALSE,
     UUID |-> bytes]

\* new(T): the zero value of the scan target.
NewScanner(tag) ==
    IF tag = "uuidVal" THEN UuidValue(FALSE, [i \in 1..16 |-> 0])
    ELSE Value(tag, FALSE, "nil", 0, "", FALSE)

\* A hex digit decoder that knows the lower-case letters only.
fromHexCharLowerOnly(c) ==
    CASE 48 <= c /\ c <= 57 -> c - 48
      [] 97 <= c /\ c <= 102 -> c - 97 + 10
      [] OTHER -> -1

\* encoding/hex fromHexChar: the value of the character with code c ('0'-'9',
\* 'a'-'f', 'A'-'F'), -1 when it is no hex digit.
fromHexChar(c) ==
    CASE 48 <= c /\ c <= 57 -> c - 48
      [] 97 <= c /\ c <= 102 -> c - 97 + 10
      [] 65 <= c /\ c <= 70 -> c - 65 + 10
      [] OTHER -> -1

\* hex.Decode(dst, in): one byte per two hex digits, or an error.
HexDecode(in) ==
    [ok |-> Len(in) % 2 = 0 /\ \A p \in DOMAIN in : fromHexChar(in[p]) >= 0,
     bytes |-> [p \in 1..(Len(in) \div 2) |->
                    16 * fromHexChar(in[2 * p - 1]) + fromHexChar(in[2 * p])]]

\* hextable[n]: the code of the lower-case hex digit of n.
HexChar(n) == IF n < 10 THEN 48 + n ELSE 87 + n

\* hex.NewEncoder(..).Write(bytes): two lower-case hex digits per byte.
HexEncode(bytes) ==
    [p \in 1..(2 * Len(bytes)) |->
        LET byte == bytes[(p + 1) \div 2]
        IN  HexChar(IF p % 2 = 1 THEN byte \div 16 ELSE byte % 16)]

\* uuidParse(dst, in) by len(in): 16 raw bytes are copied, 32 characters are
\* decoded as hex, of 36 characters the five groups between positions 8, 13,
\* 18 and 23 are decoded as hex; any other length is an error. A failed
\* parse is shown as leaving dst alone: Query returns no rows after it.
uuidParse(dst, in) ==
    CASE Len(in) = 16 -> [ok |-> TRUE, dst |-> in]
      [] Len(in) = 32 ->
            (LET d == HexDecode(in)
             IN  [ok |-> d.ok, dst |-> IF d.ok THEN d.bytes ELSE dst])
      [] Len(in) = 36 ->
            (LET g1 == HexDecode(SubSeq(in, 1, 8))
                 g2 == HexDecode(SubSeq(in, 10, 13))
                 g3 == HexDecode(SubSeq(in, 15, 18))
                 g4 == HexDecode(SubSeq(in, 20, 23))
                 g5 == HexDecode(SubSeq(in, 25, 36))
                 ok == g1.ok /\ g2.ok /\ g3.ok /\ g4.ok /\ g5.ok
             IN  [ok |-> ok,
                  dst |-> IF ok
                          THEN g1.bytes \o g2.bytes \o g3.bytes \o g4.bytes \o g5.bytes
                          ELSE dst])
      [] OTHER -> [ok |-> FALSE, dst |-> dst]

\* uuidVal.String: "NULL" unless Valid, else the hex digits of the bytes in
\* groups of 4, 2, 2, 2 and 6 bytes with '-' between them, as character codes.
uuidString(v) ==
    IF ~v.valid THEN <<78, 85, 76, 76>>
    ELSE HexEncode(SubSeq(v.UUID, 1, 4)) \o <<45>> \o HexEncode(SubSeq(v.UUID, 5, 6))
            \o <<45>> \o HexEncode(SubSeq(v.UUID, 7, 8)) \o <<45>>
            \o HexEncode(SubSeq(v.UUID, 9, 10)) \o <<45>> \o HexEncode(SubSeq(v.UUID, 11, 16))

\* The result of a Scan: the error (if any) and the scan target afterwards.
Scanned(ok, target) == [ok |-> ok, target |-> target]

\* Scan of one driver value v into the scan target t (rows.Scan, line 246).
\* The sql.Null* types store nil as invalid and otherwise set Valid before
\* converting; nullInt16 accepts nil and int64 only; *interface{} takes the
\* driver value as it is; nothing a driver delivers converts into *[]interface{}.
ScanInto(t, v) ==
    LET null == Scanned(TRUE, Value(t.tag, FALSE, "nil", 0, "", FALSE))
        failed == Scanned(FALSE, [t EXCEPT !.valid = TRUE])
    IN  CASE t.tag = "nullString" ->
                IF v.kind = "nil" THEN null
                ELSE Scanned(TRUE, Value(t.tag, TRUE, "string", 0, AsString(v), FALSE))
          [] t.tag = "nullBool" ->
                (CASE v.kind = "nil" -> null
                  [] v.kind = "bool" -> Scanned(TRUE, Value(t.tag, TRUE, "bool", 0, "", v.b))
                  [] v.kind = "int64" ->
                        IF v.i \in {0, 1}
                        THEN Scanned(TRUE, Value(t.tag, TRUE, "bool", 0, "", v.i = 1))
                        ELSE failed
                  [] v.kind = "string" ->
                        IF ParsesAsBool(v.s)
                        THEN Scanned(TRUE, Value(t.tag, TRUE, "bool", 0, "", ParseBool(v.s)))
                        ELSE failed)
          [] t.tag = "nullInt64" ->
                (CASE v.kind = "nil" -> null
                  [] v.kind = "int64" -> Scanned(TRUE, Value(t.tag, TRUE, "int64", v.i, "", FALSE))
                  [] OTHER ->
                        IF ParsesAsInt(AsString(v))
                        THEN Scanned(TRUE, Value(t.tag, TRUE, "int64", ParseInt(AsString(v)), "", FALSE))
                        ELSE failed)
          [] t.tag = "nullInt32" ->
                (CASE v.kind = "nil" -> null
                  [] v.kind = "int64" ->
                        IF InInt32(v.i)
                        THEN Scanned(TRUE, Value(t.tag, TRUE, "int64", v.i, "", FALSE))
                        ELSE failed
                  [] OTHER ->
                        IF ParsesAsInt(AsString(v))
                        THEN Scanned(TRUE, Value(t.tag, TRUE, "int64", ParseInt(AsString(v)), "", FALSE))
                        ELSE failed)
          [] t.tag = "nullInt16" ->
                (CASE v.kind = "nil" -> null
                  [] v.kind = "int64" ->
                        Scanned(TRUE, Value(t.tag, TRUE, "int64", Int16Of(v.i), "", FALSE))
                  [] OTHER -> Scanned(FALSE, t))
          [] t.tag = "uuidVal" ->
                (CASE v.kind = "nil" -> Scanned(TRUE, [t EXCEPT !.valid = FALSE])
                  [] v.kind \in {"bytes", "chars"} ->
                        (LET p == uuidParse(t.UUID, v.data)
                         IN  IF p.ok THEN Scanned(TRUE, UuidValue(TRUE, p.dst))
                             ELSE Scanned(FALSE, t))
                  [] OTHER -> Scanned(FALSE, t))
          [] t.tag = "interface" ->
                Scanned(TRUE, Value(t.tag, FALSE, v.kind, v.i, v.s, v.b))
          [] t.tag = "array" -> Scanned(FALSE, t)

\* A rendering that does not look at Valid.
StringIgnoringValid(v) ==
    CASE v.tag = "nullString" -> v.s
      [] v.tag = "nullBool" -> (IF v.b THEN "true" ELSE "false")
      [] v.tag \in {"nullInt64", "nullInt32", "nullInt16"} -> FormatInt(v.i)

\* The String methods of nullString, nullBool, nullInt64, nullInt32 and
\* nullInt16: "NULL" unless Valid, else the text, strconv.FormatBool or
\* strconv.FormatInt(.., 10) of the value.
String(v) ==
    CASE v.tag = "nullString" -> (IF v.valid THEN v.s ELSE "NULL")
      [] v.tag = "nullBool" -> (IF v.valid THEN (IF v.b THEN "true" ELSE "false") ELSE "NULL")
      [] v.tag \in {"nullInt64", "nullInt32", "nullInt16"} ->
            (IF v.valid THEN FormatInt(v.i) ELSE "NULL")
      [] v.tag = "uuidVal" -> uuidString(v)

----------------------------------------------------------------------------
(* DBMan.Query *)

\* rows.Scan(scanners...): every value of the row into its scan target.
ScanRow(scanners, row) ==
    LET res == [j \in DOMAIN scanners |-> ScanInto(scanners[j], row[j])]
    IN  [ok |-> \A j \in DOMAIN scanners : res[j].ok,
         targets |-> [j \in DOMAIN scanners |-> res[j].target]]

\* Lines 250-257: the values copied out of the scan targets after a Scan.
CopyOut(targets) == [j \in DOMAIN targets |-> targets[j]]

\* A loop that reuses one data slice for every row: the rows appended so far
\* all show the values of the row scanned last.
RECURSIVE ReadRowsSharedData(_, _, _)
ReadRowsSharedData(scanners, rows, acc) ==
    IF rows = <<>> THEN [ok |-> TRUE, rows |-> acc]
    ELSE LET r == ScanRow(scanners, Head(rows))
         IN  IF ~r.ok THEN [ok |-> FALSE, rows |-> <<>>]
             ELSE ReadRowsSharedData(r.targets, Tail(rows),
                                     [i \in 1..(Len(acc) + 1) |-> CopyOut(r.targets)])

\* Lines 245-260: the loop over the rows, with the scan targets reused from
\* row to row. The rows read, or a scan error.
RECURSIVE ReadRows(_, _, _)
ReadRows(scanners, rows, acc) ==
    IF rows = <<>> THEN [ok |-> TRUE, rows |-> acc]
    ELSE LET r == ScanRow(scanners, Head(rows))
         IN  IF ~r.ok THEN [ok |-> FALSE, rows |-> <<>>]
             ELSE ReadRows(r.targets, Tail(rows), Append(acc, CopyOut(r.targets)))

\* The number of rows.Scan calls the loop makes: one for each row up to and
\* including the first whose Scan fails.
RECURSIVE ScanCalls(_, _)
ScanCalls(scanners, rows) ==
    IF rows = <<>> THEN 0
    ELSE LET r == ScanRow(scanners, Head(rows))
         IN  IF ~r.ok THEN 1 ELSE 1 + ScanCalls(r.targets, Tail(rows))

\* The places Query returns at once it holds the rows handle.
ReturnPaths == {"columns", "no_columns", "scan", "done"}

\* A Close written only at the end of the function.
ClosedAtLastReturn(path) == path = "done"

\* Line 189: defer rows.Close() runs at every return that follows it.
ClosedAtReturn(path) == path \in ReturnPaths

\* The call record of a Query that held the rows handle and left at path
\* after scans calls of rows.Scan.
Returned(l, path, scans) ==
    [l EXCEPT !.rowsObtained = TRUE, !.rowsClosed = ClosedAtReturn(path), !.scans = scans]

\* A check that never sees the statement without a result set.
NoColumnsNever(cols) == FALSE

\* len(columns) == 0: the statement has no result set.
NoColumns(cols) == Len(cols) = 0

\* The call record Query ends with on the current connection cur, when the
\* connection answers with the result set rs.
QueryOutcome(cur, rs) ==
    LET l == [Call("Query", "") EXCEPT !.input = rs]
    IN  IF NoActiveConnection(cur)
        THEN [Call("Query", "") EXCEPT !.err = "no_active_connection"]
        ELSE IF rs.fail = "query" THEN [l EXCEPT !.touched = cur, !.err = "query"]
        ELSE IF rs.fail = "columns"
             THEN Returned([l EXCEPT !.touched = cur, !.err = "columns"], "columns", 0)
        ELSE IF NoColumns(rs.cols) THEN Returned([l EXCEPT !.touched = cur], "no_columns", 0)
        ELSE LET names == [j \in DOMAIN rs.cols |-> rs.cols[j].name]
                 scanners == [j \in DOMAIN rs.cols |->
                                 NewScanner(ScannerKind(rs.cols[j].typeName))]
                 read == ReadRows(scanners, rs.rows, <<>>)
                 scans == ScanCalls(scanners, rs.rows)
             IN  IF ~read.ok
                 THEN Returned([l EXCEPT !.touched = cur, !.err = "scan"], "scan", scans)
                 ELSE Returned([l EXCEPT !.touched = cur,
                                         !.query = QueryResult(FALSE, names, read.rows),
                                         !.err = IF rs.fail = "rows" THEN "rows" ELSE "nil"],
                               "done", scans)

QueryOn(resultSets) ==
    \E rs \in resultSets : last' = QueryOutcome(current, rs) /\ Unchanged

\* The result sets the registry is exercised with: a statement without a
\* result set, an empty result set, one row, and a failing query.
FewResultSets ==
    {ResultSet("none", <<>>, <<>>),
     ResultSet("none", <<Column("id", "int2")>>, <<>>),
     ResultSet("none", <<Column("id", "int2")>>, <<<<DriverInt(7)>>>>),
     ResultSet("query", <<>>, <<>>)}

Query == QueryOn(FewResultSets)

Next ==
    \/ SwitchConnection
    \/ Close
    \/ ListTables
    \/ ListSchemas
    \/ DescribeTable
    \/ Stats
    \/ Query

Spec == Init /\ [][Next]_vars

----------------------------------------------------------------------------
(* The query model: a database that is filled, one connection, one query. *)

\* The columns of the model: a 16-bit integer (its type name in lower case),
\* a text, a column of a type Query does not know, and an array.
ColumnChoices ==
    {Column("id", "int2"), Column("label", "TEXT"), Column("misc", ""),
     Column("tags", "ARRAY")}

\* The 16 bytes of the k-th identifier of the model.
UuidBytes(k) == [p \in 1..16 |-> (k * 7 + p * 37) % 256]

\* A hex digit in the letter case of an encoding: all lower, all upper, or
\* upper at the odd positions.
Cased(c, mode, pos) ==
    IF c >= 97 /\ (mode = "upper" \/ (mode = "mixed" /\ pos % 2 = 1)) THEN c - 32 ELSE c

\* The 32 hex digits of an identifier.
Hex32(bytes, mode) ==
    [p \in 1..32 |->
        LET byte == bytes[(p + 1) \div 2]
        IN  Cased(HexChar(IF p % 2 = 1 THEN byte \div 16 ELSE byte % 16), mode, p)]

\* The hyphenated 8-4-4-4-12 form of an identifier.
Hex36(bytes, mode) ==
    LET h == Hex32(bytes, mode)
    IN  SubSeq(h, 1, 8) \o <<45>> \o SubSeq(h, 9, 12) \o <<45>> \o SubSeq(h, 13, 16)
            \o <<45>> \o SubSeq(h, 17, 20) \o <<45>> \o SubSeq(h, 21, 32)

\* The encodings of an identifier a driver can deliver: the raw bytes and
\* the lower-case hyphenated form as a []byte; the 32 hex digits in lower
\* and in upper case and the hyphenated form in upper and in mixed case as
\* a string.
UuidEncodings(bytes) ==
    {DriverBytes(bytes), DriverBytes(Hex36(bytes, "lower")),
     DriverChars(Hex32(bytes, "lower")), DriverChars(Hex32(bytes, "upper")),
     DriverChars(Hex36(bytes, "upper")), DriverChars(Hex36(bytes, "mixed"))}

\* What the driver delivers in a UUID column: null, an encoding of an
\* identifier, or a text that is none ("abc").
UuidCells ==
    {DriverNil, DriverChars(<<97, 98, 99>>)}
        \cup UNION {UuidEncodings(UuidBytes(k)) : k \in 1..MaxUuids}

\* What the driver delivers in a column: null or a value of the column's type.
CellValues(col) ==
    CASE col.typeName = "int2" -> {DriverNil, DriverInt(40000)}
      [] col.typeName = "bigint" -> {DriverNil, DriverInt(-12)}
      [] col.typeName = "INTEGER" -> {DriverNil, DriverInt(305)}
      [] col.typeName = "SMALLINT" -> {DriverNil, DriverInt(-7), DriverInt(40000)}
      [] col.typeName = "uuid" -> UuidCells
      [] col.typeName = "TEXT" -> {DriverNil, DriverString("hello")}
      [] col.typeName = ""     -> {DriverNil, DriverInt(7)}
      [] col.typeName = "ARRAY" -> {DriverNil, DriverString("{1,2}")}

RowsOf(cols) ==
    {row \in [1..Len(cols) -> UNION {CellValues(cols[j]) : j \in DOMAIN cols}] :
        \A j \in 1..Len(cols) : row[j] \in CellValues(cols[j])}

QueryInit == Init /\ pgpassword = ""

\* The database is filled before the registry is used.
Filling == last.op = "New" /\ pending.fail = "none"

DbOnly == UNCHANGED <<cfg, current, currentName, activeQueriers, activeTunnels, pgpassword,
                      sessions, listeners, closedQueriers, closedTunnels, catalog, tun,
                      displayCache, tasks, cli, editor, last>>

\* The statement gets one more column (while it has no rows).
DbAddColumnOf(choices) ==
    /\ Filling /\ Len(pending.cols) < MaxCols /\ pending.rows = <<>>
    /\ \E col \in choices : pending' = [pending EXCEPT !.cols = Append(@, col)]
    /\ DbOnly

DbAddColumn == DbAddColumnOf(ColumnChoices)

\* The result set gets one more row.
DbAddRow ==
    /\ Filling /\ pending.cols # <<>> /\ Len(pending.rows) < MaxRows
    /\ \E row \in RowsOf(pending.cols) : pending' = [pending EXCEPT !.rows = Append(@, row)]
    /\ DbOnly

\* The database is set to fail: at Query or ColumnTypes, or at the end of
\* the iteration over the rows it has.
DbFail ==
    /\ Filling
    /\ \E f \in {"query", "columns", "rows"} :
        /\ f = "rows" => pending.cols # <<>>
        /\ f # "rows" => pending.cols = <<>>
        /\ pending' = [pending EXCEPT !.fail = f]
    /\ DbOnly

QueryConnect == SwitchConnectionOn({"direct"}, {"none"})

QueryPending == QueryOn({pending})

QueryNext ==
    \/ DbAddColumn
    \/ DbAddRow
    \/ DbFail
    \/ QueryConnect
    \/ QueryPending

QuerySpec == QueryInit /\ [][QueryNext]_vars

----------------------------------------------------------------------------
(* The integer model: the query model over columns of the integer types. *)

\* A 64-bit, a 32-bit and a 16-bit integer column.
IntColumnChoices ==
    {Column("big", "bigint"), Column("num", "INTEGER"), Column("small", "SMALLINT")}

IntAddColumn == DbAddColumnOf(IntColumnChoices)

IntNext ==
    \/ IntAddColumn
    \/ DbAddRow
    \/ DbFail
    \/ QueryConnect
    \/ QueryPending

IntSpec == QueryInit /\ [][IntNext]_vars

----------------------------------------------------------------------------
(* The UUID model: the query model over one UUID column. *)

UuidAddColumn == pending.cols = <<>> /\ DbAddColumnOf({Column("uid", "uuid")})

UuidNext ==
    \/ UuidAddColumn
    \/ DbAddRow
    \/ DbFail
    \/ QueryConnect
    \/ QueryPending

UuidSpec == QueryInit /\ [][UuidNext]_vars

----------------------------------------------------------------------------
(* The metadata model: a catalog that is filled, one connection, metadata calls. *)

\* Columns of every combination of having a default and being nullable, one
\* of them of a user-defined type.
ColumnChoices_t ==
    {[name |-> "id", type |-> "integer", default |-> NullString(TRUE, "0"),
      nullable |-> "NO", udtSchema |-> "pg_catalog", udtName |-> "int4"],
     [name |-> "note", type |-> "text", default |-> NullString(FALSE, ""),
      nullable |-> "YES", udtSchema |-> "pg_catalog", udtName |-> "text"],
     [name |-> "mood", type |-> "USER-DEFINED", default |-> NullString(TRUE, "'ok'"),
      nullable |-> "YES", udtSchema |-> "public", udtName |-> "mood"],
     [name |-> "flag", type |-> "boolean", default |-> NullString(FALSE, ""),
      nullable |-> "NO", udtSchema |-> "pg_catalog", udtName |-> "bool"]}

\* The tables columns are added to, and the columns each can get: table t of
\* schema "public", and table t of a schema that is itself named t.
ColumnTargets ==
    {<<Public, <<"t">>, c>> : c \in ColumnChoices_t}
        \cup {<<<<"t">>, <<"t">>,
                [name |-> "k", type |-> "integer", default |-> NullString(FALSE, ""),
                 nullable |-> "NO", udtSchema |-> "pg_catalog", udtName |-> "int4"]>>}

CatFilling == last.op = "New" /\ catalog.fail = "none"

CatOnly == UNCHANGED <<cfg, current, currentName, activeQueriers, activeTunnels, pgpassword,
                       sessions, listeners, closedQueriers, closedTunnels, pending, tun,
                       displayCache, tasks, cli, editor, last>>

\* A table gets one more column, at the next ordinal position.
CatAddColumn ==
    /\ CatFilling /\ Cardinality(catalog.columns) < MaxMetaCols
    /\ \E target \in ColumnTargets :
        LET schema == target[1]
            table == target[2]
            c == target[3]
            present == {r \in catalog.columns :
                            r.table_schema = schema /\ r.table_name = table}
        IN  /\ \A r \in present : r.column_name # c.name
            /\ catalog' = [catalog EXCEPT !.columns = @ \cup
                    {ColumnRow(schema, table, Cardinality(present) + 1, c.name, c.type,
                               c.default, c.nullable, c.udtSchema, c.udtName)}]
    /\ CatOnly

\* The tables and views the database can have.
TableChoices ==
    {TableRow(Public, <<"t">>, "BASE TABLE"), TableRow(Public, <<"v">>, "VIEW"),
     TableRow(<<"t">>, <<"t">>, "BASE TABLE"),
     TableRow(<<"pg_", "catalog">>, <<"pg_class">>, "BASE TABLE")}

CatAddTable ==
    /\ CatFilling /\ Cardinality(catalog.tables) < MaxTables
    /\ \E row \in TableChoices \ catalog.tables :
            catalog' = [catalog EXCEPT !.tables = @ \cup {row}]
    /\ CatOnly

\* The database is set to fail its queries, or the iteration over the rows.
CatFail ==
    /\ CatFilling
    /\ \E f \in {"query", "rows"} : catalog' = [catalog EXCEPT !.fail = f]
    /\ CatOnly

\* The names of at most n pieces.
NamesUpTo(n) == UNION {[1..k -> {"t", Sep}] : k \in 0..n}

\* The names DescribeTable is called with: every name of at most MaxNameLen
\* pieces, those without a separator qualified with "public", and t.t.t.
TableNames ==
    NamesUpTo(MaxNameLen)
        \cup {Public \o <<Sep>> \o t : t \in {n \in NamesUpTo(MaxNameLen) :
                                                   \A i \in DOMAIN n : n[i] # Sep}}
        \cup {<<"t", Sep, "t", Sep, "t">>}

DescribeNamed == DescribeTableOn(TableNames)

DescribeNext ==
    \/ CatAddColumn
    \/ CatFail
    \/ QueryConnect
    \/ DescribeNamed

DescribeSpec == QueryInit /\ [][DescribeNext]_vars

\* The schemas ListTables is called with: none, and the schemas of the model.
SchemaArgs == {<<>>, Public, <<"t">>, <<"pg_", "catalog">>}

ListTablesIn == ListTablesOn(SchemaArgs)

TablesNext ==
    \/ CatAddTable
    \/ CatFail
    \/ QueryConnect
    \/ ListTablesIn

TablesSpec == QueryInit /\ [][TablesNext]_vars

----------------------------------------------------------------------------
(* pluginState.refreshCache of the editor plugin, on the registry. *)

\* dbMeta.ListSchemas on the call record l: the rows of
\* information_schema.schemata in the order the database returns them, without
\* the system schemas; rows.Err() is not looked at.
dbMetaListSchemas(schemata, cat, build, l) ==
    LET l2 == [l EXCEPT !.build = build, !.issued = Append(@, Issued("schemata", <<>>))]
    IN  IF cat.fail = "query" THEN [l2 EXCEPT !.err = "db"]
        ELSE [l2 EXCEPT !.result = "value",
                        !.schemas = SelectSeq(schemata, NotSystemSchema)]

\* DBMan.ListSchemas()
ListSchemasOutcome(cur, cat, build, schemata) ==
    LET l == Call("ListSchemas", "")
    IN  IF NoActiveConnection(cur) THEN [l EXCEPT !.err = "no_active_connection"]
        ELSE dbMetaListSchemas(schemata, cat, build, [l EXCEPT !.touched = cur])

\* One call of a method of s.db.
Invoked(op, arg) == [op |-> op, arg |-> arg]

schemaState(name, tables) == [Name |-> name, Tables |-> tables]

\* How far refreshCache got: its error, what it collected, the calls it made.
Collected(err, items, calls) == [err |-> err, items |-> items, calls |-> calls]

\* state.go 157: s.db.DescribeTable(name), name being an element of what
\* ListTables returned.
DescribeArg(schema, table) == table

\* state.go 156-162: the inner loop from table j on.
RECURSIVE DescribeEach(_, _, _, _, _, _)
DescribeEach(cur, cat, build, schema, tables, j) ==
    IF j > Len(tables) THEN Collected("nil", <<>>, <<>>)
    ELSE LET arg == DescribeArg(schema, tables[j])
             d == DescribeTableOutcome(cur, cat, build, arg)
             c == <<Invoked("DescribeTable", arg)>>
         IN  IF d.err # "nil" THEN Collected(d.err, <<>>, c)
             ELSE LET rest == DescribeEach(cur, cat, build, schema, tables, j + 1)
                  IN  Collected(rest.err, <<d.schema>> \o rest.items, c \o rest.calls)

\* state.go 146-163: the outer loop from schema i on.
RECURSIVE SchemaEach(_, _, _, _, _)
SchemaEach(cur, cat, build, schemaNames, i) ==
    IF i > Len(schemaNames) THEN Collected("nil", <<>>, <<>>)
    ELSE LET name == schemaNames[i]
             t == ListTablesOutcome(cur, cat, build, name)
             c == <<Invoked("ListTables", name)>>
         IN  IF t.err # "nil" THEN Collected(t.err, <<>>, c)
             ELSE LET ds == DescribeEach(cur, cat, build, name, t.tables, 1)
                  IN  IF ds.err # "nil" THEN Collected(ds.err, <<>>, c \o ds.calls)
                      ELSE LET rest == SchemaEach(cur, cat, build, schemaNames, i + 1)
                           IN  Collected(rest.err,
                                         <<schemaState(name, ds.items)>> \o rest.items,
                                         c \o ds.calls \o rest.calls)

\* state.go 139-166: refreshCache as a call record; cache is what it stores.
refreshCacheOutcome(cur, curName, cat, build, schemata) ==
    LET l == [Call("refreshCache", curName) EXCEPT !.build = build]
        s == ListSchemasOutcome(cur, cat, build, schemata)
        c == <<Invoked("ListSchemas", <<>>)>>
    IN  IF s.err # "nil" THEN [l EXCEPT !.err = s.err, !.calls = c]
        ELSE LET r == SchemaEach(cur, cat, build, s.schemas, 1)
             IN  [l EXCEPT !.err = r.err, !.schemas = s.schemas,
                           !.calls = c \o r.calls, !.cache = r.items]

\* What information_schema.schemata holds, in the orders the database returns it.
SchemataOrders ==
    {<<Public>>, <<Public, <<"t">>>>, <<<<"t">>, Public>>,
     <<<<"pg_", "catalog">>, <<"t">>, Public>>}

refreshCacheBy ==
    /\ \E build \in Builds, schemata \in SchemataOrders :
        LET l == refreshCacheOutcome(current, currentName, catalog, build, schemata)
        IN  /\ last' = l
            /\ displayCache' = IF l.err = "nil"
                               THEN Put(displayCache, currentName, l.cache)
                               ELSE displayCache
    /\ UNCHANGED <<cfg, current, currentName, activeQueriers, activeTunnels, pgpassword,
                   sessions, listeners, closedQueriers, closedTunnels, pending, catalog,
                   tun>>

refreshCache == refreshCacheBy /\ UNCHANGED <<tasks, cli, editor>>

RefreshNext ==
    \/ CatAddTable
    \/ CatAddColumn
    \/ CatFail
    \/ QueryConnect
    \/ refreshCache

RefreshSpec == QueryInit /\ [][RefreshNext]_vars

----------------------------------------------------------------------------
(* The command handlers of the editor plugin: DBConnect and DBRefresh start a
   goroutine and return. *)

MaxTasks == 2

\* The known_hosts file has at most this many entries.
MaxKnownHosts == 2

\* A line typed at the terminal has at most this many characters.
MaxLineLen == 2

\* One goroutine: the command that started it, the connection name it was
\* given, and the method of the registry or of the plugin state it is in.
Task(cmd, name, pc) == [cmd |-> cmd, name |-> name, pc |-> pc]

\* The goroutine is inside a method of the registry.
InRegistry(task) == task.pc \in {"SwitchConnection", "refreshCache"}

RegistryOnly ==
    UNCHANGED <<cfg, current, currentName, activeQueriers, activeTunnels, pgpassword,
                sessions, listeners, closedQueriers, closedTunnels, pending, catalog,
                tun, displayCache, cli, editor, last>>

\* main.go 184-203: the handler of DBConnect starts a goroutine and returns.
DBConnect ==
    /\ Len(tasks) < MaxTasks
    /\ \A i \in DOMAIN tasks : tasks[i].pc # "fatal"
    /\ \E n \in {"direct", "viaA"} : tasks' = Append(tasks, Task("DBConnect", n, "spawned"))
    /\ RegistryOnly

\* main.go 210-217: the handler of DBRefresh starts a goroutine and returns.
DBRefresh ==
    /\ Len(tasks) < MaxTasks
    /\ \A i \in DOMAIN tasks : tasks[i].pc # "fatal"
    /\ tasks' = Append(tasks, Task("DBRefresh", "", "spawned"))
    /\ RegistryOnly

\* main.go 186 and 197, 212: the goroutine calls state.db.SwitchConnection, or
\* state.displaySchemas(api, true), which calls refreshCache; nothing is locked.
TaskEnters ==
    /\ \E i \in DOMAIN tasks :
        /\ tasks[i].pc \in {"spawned", "connected"}
        /\ tasks' = [tasks EXCEPT ![i].pc =
                        IF tasks[i].cmd = "DBConnect" /\ tasks[i].pc = "spawned"
                        THEN "SwitchConnection" ELSE "refreshCache"]
    /\ RegistryOnly

\* main.go 186-190: SwitchConnection returns to the goroutine.
TaskSwitches ==
    \E i \in DOMAIN tasks :
        /\ tasks[i].pc = "SwitchConnection"
        /\ SwitchConnectionBy({tasks[i].name}, {"none", "ping"})
        /\ tasks' = [tasks EXCEPT ![i].pc = IF last'.err = "nil" THEN "connected" ELSE "done"]
        /\ UNCHANGED <<cli, editor>>

\* main.go 197-199, 212-214: refreshCache returns to the goroutine.
TaskRefreshes ==
    \E i \in DOMAIN tasks :
        /\ tasks[i].pc = "refreshCache"
        /\ refreshCacheBy
        /\ tasks' = [tasks EXCEPT ![i].pc = "done"]
        /\ UNCHANGED <<cli, editor>>

\* Two goroutines are inside the registry and one of them writes its maps: the
\* runtime may stop the process with "concurrent map writes" or "concurrent
\* map read and map write".
TaskRace ==
    /\ \E i, j \in DOMAIN tasks :
        /\ i # j
        /\ tasks[i].pc = "SwitchConnection"
        /\ InRegistry(tasks[j])
    /\ tasks' = [i \in DOMAIN tasks |-> [tasks[i] EXCEPT !.pc = "fatal"]]
    /\ RegistryOnly

PluginNext ==
    \/ DBConnect
    \/ DBRefresh
    \/ TaskEnters
    \/ TaskSwitches
    \/ TaskRefreshes
    \/ TaskRace

PluginSpec == QueryInit /\ [][PluginNext]_vars

----------------------------------------------------------------------------
(* DBMan.ListConnections *)

\* A flag that is set for every name as soon as any handle is cached.
IsActiveWhenAny(aq, k) == DOMAIN aq # {}

\* _, ok := d.activeQueriers[k]
IsActive(aq, k) == Has(aq, k)

\* The two slices the loop over d.cfg.Connections appends to, when the range
\* visits the keys of the map in the given order.
ListConnectionsOutcome(c, aq, order) ==
    [Call("ListConnections", "") EXCEPT
        !.names = order,
        !.active = [i \in DOMAIN order |-> IsActive(aq, order[i])]]

ListConnections ==
    /\ \E order \in Orders(DOMAIN cfg.Connections) :
            last' = ListConnectionsOutcome(cfg, activeQueriers, order)
    /\ Unchanged

\* The registry used for switching, with and without a failing ping or
\* prompt, and for listing its connections.
ListSwitch == SwitchConnectionOn(DOMAIN TheConfig.Connections, {"none", "prompt", "ping"})

ListNext ==
    \/ ListSwitch
    \/ ListConnections

ListSpec == Init /\ [][ListNext]_vars

\* The registry used, listed and queried before and after Close.
AfterCloseSwitch == SwitchConnectionOn({"direct", "viaA"}, {"none", "ping"})

AfterCloseNext ==
    \/ AfterCloseSwitch
    \/ Close
    \/ ListConnections
    \/ Query

AfterCloseSpec == Init /\ [][AfterCloseNext]_vars

----------------------------------------------------------------------------
(* A registry constructed with a connection that names a tunnel the
   configuration does not have (New takes the Config as it is given). *)

OrphanConfig ==
    [Connections |->
        [n \in {"direct", "viaA", "orphan"} |->
            CASE n = "direct" -> Connection("db1", 5432, "cfgpw", "postgres", "")
              [] n = "viaA"   -> Connection("db2", 5432, "", "postgres", "bastion")
              [] n = "orphan" -> Connection("db5", 5432, "cfgpw", "postgres", "ghost")],
     Tunnels |->
        [t \in {"bastion"} |-> SSHTunnel("bastion.example", 22)]]

OrphanInit ==
    /\ cfg = OrphanConfig
    /\ current = NoHandle
    /\ currentName = ""
    /\ activeQueriers = EmptyMap
    /\ activeTunnels = EmptyMap
    /\ pgpassword \in {"", "envpw"}
    /\ sessions = [t \in {"bastion", "ghost"} |-> 0]
    /\ listeners = [t \in {"bastion", "ghost"} |-> 0]
    /\ closedQueriers = {}
    /\ closedTunnels = {}
    /\ last = Call("New", "")
    /\ pending = NoResultSet
    /\ catalog = EmptyCatalog
    /\ tun = NoTunnel
    /\ displayCache = EmptyMap
    /\ tasks = <<>>
    /\ cli = newCLI
    /\ editor = NoCommand

OrphanSwitch == SwitchConnectionOn(DOMAIN OrphanConfig.Connections, FailurePoints)

OrphanNext ==
    \/ OrphanSwitch
    \/ ListConnections
    \/ Close

OrphanSpec == OrphanInit /\ [][OrphanNext]_vars

\* A Config that passes Config.validate (part_008:347-404 test the fields of
\* a connection, never its key) and has a connection under the empty name,
\* which is also the name cmd/dbman/main.go:46 looks up when the command line
\* names no connection.
UnnamedConfig ==
    [Connections |->
        [n \in {"", "viaA"} |->
            CASE n = ""     -> Connection("db1", 5432, "cfgpw", "postgres", "")
              [] n = "viaA" -> Connection("db2", 5432, "", "postgres", "bastion")],
     Tunnels |->
        [t \in {"bastion"} |-> SSHTunnel("bastion.example", 22)]]

UnnamedInit ==
    /\ cfg = UnnamedConfig
    /\ current = NoHandle
    /\ currentName = ""
    /\ activeQueriers = EmptyMap
    /\ activeTunnels = EmptyMap
    /\ pgpassword \in {"", "envpw"}
    /\ sessions = [t \in {"bastion"} |-> 0]
    /\ listeners = [t \in {"bastion"} |-> 0]
    /\ closedQueriers = {}
    /\ closedTunnels = {}
    /\ last = Call("New", "")
    /\ pending = NoResultSet
    /\ catalog = EmptyCatalog
    /\ tun = NoTunnel
    /\ displayCache = EmptyMap
    /\ tasks = <<>>
    /\ cli = newCLI
    /\ editor = NoCommand

UnnamedSwitch ==
    SwitchConnectionOn(DOMAIN UnnamedConfig.Connections \cup {"nope"}, FailurePoints)

UnnamedNext ==
    \/ UnnamedSwitch
    \/ Close
    \/ Query

UnnamedSpec == UnnamedInit /\ [][UnnamedNext]_vars

----------------------------------------------------------------------------
(* NewTunnel: the host key check, the authentication, the listener, the dial. *)

promptNumRetries == 3

MaxConns == 2

MaxAcceptErrors == 1

\* Lines 43-61: the arm of the switch that builds hostKeyCB.
HostKeyModeInsecureFirst(tunnel) ==
    CASE tunnel.DisableVerifyKnownHost -> "insecure"
      [] tunnel.HostPublicKeyFile # "" -> "pinned"
      [] OTHER -> "known_hosts"

HostKeyMode(tunnel) ==
    CASE tunnel.HostPublicKeyFile # "" -> "pinned"
      [] ~tunnel.DisableVerifyKnownHost -> "known_hosts"
      [] OTHER -> "insecure"

\* The passphrase the private key file is encrypted with.
KeyPassphrase == "secret"

\* ssh.ParsePrivateKeyWithPassphrase returns no error.
Decrypts(passphrase) == passphrase = KeyPassphrase

\* What the prompter returns to one request: an error, or one answer.
PrompterAnswer(err, answer) == [err |-> err, answer |-> answer]

PrompterAnswers ==
    {PrompterAnswer(TRUE, ""), PrompterAnswer(FALSE, "guess"),
     PrompterAnswer(FALSE, KeyPassphrase)}

Attempt(prompts, err) == [prompts |-> prompts, err |-> err]

\* Lines 99-101: if err == nil { break }.
BreaksNever(err) == FALSE

Breaks(err) == ~err

\* Lines 90-102: the loop from iteration i on; err is the error variable as the
\* previous iteration left it.
RECURSIVE PromptLoop(_, _, _)
PromptLoop(i, answers, err) ==
    IF i >= promptNumRetries
    THEN Attempt(i, err)
    ELSE LET a == answers[i + 1]
         IN  IF a.err
             THEN PromptLoop(i + 1, answers, TRUE)
             ELSE LET e == ~Decrypts(a.answer)
                  IN  IF Breaks(e) THEN Attempt(i + 1, e)
                                   ELSE PromptLoop(i + 1, answers, e)

Signed(signer, prompts) == [signer |-> signer, prompts |-> prompts]

\* Lines 79-109: one call of the public-key callback.
Signer(tunnel, key, answers) ==
    CASE key = "garbage"   -> Signed("parse_error", 0)
      [] key = "plain"     -> Signed("ok", 0)
      [] key = "encrypted" ->
            IF tunnel.PrivateKeyPassphrase # ""
            THEN Signed(IF Decrypts(tunnel.PrivateKeyPassphrase)
                        THEN "ok" ELSE "decrypt_error", 0)
            ELSE LET r == PromptLoop(0, answers, TRUE)
                 IN  Signed(IF r.err THEN "decrypt_error" ELSE "ok", r.prompts)

\* Lines 45-53 and 72-77, 111-116: the returns before net.Listen.
FailsEarly(tunnel, env) ==
    \/ tunnel.HostPublicKeyFile # "" /\ ~env.hostKeyFileOk
    \/ tunnel.AuthMethod = "public_key" /\ env.key = "unreadable"
    \/ tunnel.AuthMethod = "agent" /\ ~env.agentOk

\* Lines 147: the callback is asked for signers once the bastion is reached.
Handshake(tunnel, env) ==
    IF env.bastionOk /\ tunnel.AuthMethod = "public_key"
    THEN Signer(tunnel, env.key, env.answers)
    ELSE Signed("none", 0)

\* Lines 37-172: the whole of NewTunnel.
NewTunnelResult(tunnel, env) ==
    LET mode == HostKeyMode(tunnel)
        begun == [NoTunnel EXCEPT !.spec = tunnel, !.env = env, !.hostKey = mode]
        hs == Handshake(tunnel, env)
        dialed == [begun EXCEPT !.listener = "open", !.signer = hs.signer,
                                !.prompts = hs.prompts]
    IN  CASE FailsEarly(tunnel, env) -> [begun EXCEPT !.outcome = "early_error"]
          [] ~env.listenOk -> [begun EXCEPT !.outcome = "listen_error"]
          [] ~env.bastionOk \/ hs.signer \in {"parse_error", "decrypt_error"} ->
                [dialed EXCEPT !.outcome = "dial_error"]
          [] OTHER ->
                [dialed EXCEPT !.outcome = "ok", !.session = TRUE, !.acceptPc = "accept"]

TunnelOnly ==
    UNCHANGED <<cfg, current, currentName, activeQueriers, activeTunnels, pgpassword,
                sessions, listeners, closedQueriers, closedTunnels, pending, catalog,
                displayCache, tasks, cli, editor, last>>

NewTunnelOn(specs, envs) ==
    /\ tun.outcome = "none"
    /\ \E tunnel \in specs, env \in envs : tun' = NewTunnelResult(tunnel, env)
    /\ TunnelOnly

AllOptions ==
    {TunnelOptions(f, d, a, p) :
        f \in {"", "bastion.pub"}, d \in BOOLEAN,
        a \in {"", "password", "public_key", "agent"},
        p \in {"", "guess", KeyPassphrase}}

AllSurroundings ==
    {Surroundings(h, k, ans, ag, l, b) :
        h \in BOOLEAN, k \in {"unreadable", "garbage", "plain", "encrypted"},
        ans \in [1..promptNumRetries -> PrompterAnswers],
        ag \in BOOLEAN, l \in BOOLEAN, b \in BOOLEAN}

\* Only what the chosen arms of NewTunnel read differs between the inputs.
Relevant(tunnel, env) ==
    /\ tunnel.HostPublicKeyFile = "" => env.hostKeyFileOk
    /\ tunnel.AuthMethod # "agent" => env.agentOk
    /\ tunnel.AuthMethod # "public_key" =>
            env.key = "plain" /\ tunnel.PrivateKeyPassphrase = ""
    /\ (env.key # "encrypted" \/ tunnel.PrivateKeyPassphrase # "") =>
            \A i \in DOMAIN env.answers : env.answers[i] = PrompterAnswer(TRUE, "")

NewTunnel ==
    /\ tun.outcome = "none"
    /\ \E tunnel \in AllOptions, env \in AllSurroundings :
            Relevant(tunnel, env) /\ tun' = NewTunnelResult(tunnel, env)
    /\ TunnelOnly

HandshakeInit == Init /\ pgpassword = ""

HandshakeNext == NewTunnel

HandshakeSpec == HandshakeInit /\ [][HandshakeNext]_vars

----------------------------------------------------------------------------
(* The accept loop, the forwards and Close of one tunnel. *)

Forwarded(local, fwd, copying) == [local |-> local, fwd |-> fwd, copying |-> copying]

\* Locking t.mu returns.
AcquirableAlways(mu) == TRUE

Acquirable(mu) == mu = "free"

ListenerClosedError == AcceptError(TRUE, FALSE)

AcceptErrors == {AcceptError(TRUE, TRUE), AcceptError(TRUE, FALSE)}

\* Lines 157-159: the error that makes the goroutine return.
EndsLoopNever(err) == FALSE

EndsLoop(err) == err.opErr /\ ~err.temporary

\* Line 155: Accept returns a connection.
AcceptConn ==
    /\ tun.acceptPc = "accept"
    /\ tun.listener = "open"
    /\ Len(tun.conns) < MaxConns
    /\ tun' = [tun EXCEPT !.conns = Append(@, Forwarded("open", "new", 0)),
                          !.held = Len(tun.conns) + 1,
                          !.acceptPc = "lock"]
    /\ TunnelOnly

\* Lines 155-162: Accept returns an error.
AcceptFails ==
    /\ tun.acceptPc = "accept"
    /\ \E err \in (IF tun.listener = "closed" THEN {ListenerClosedError} ELSE AcceptErrors) :
            IF EndsLoop(err)
            THEN tun' = [tun EXCEPT !.acceptErr = err, !.acceptPc = "done"]
            ELSE /\ tun.logged < MaxAcceptErrors
                 /\ tun' = [tun EXCEPT !.acceptErr = err, !.logged = @ + 1]
    /\ TunnelOnly

\* Line 164: t.mu.Lock().
AcceptLock ==
    /\ tun.acceptPc = "lock"
    /\ Acquirable(tun.mu)
    /\ tun' = [tun EXCEPT !.mu = "accept", !.acceptPc = "append"]
    /\ TunnelOnly

\* Line 165: t.connections = append(t.connections, conn).
AcceptAppend ==
    /\ tun.acceptPc = "append"
    /\ tun' = [tun EXCEPT !.connections = Append(@, tun.held), !.acceptPc = "unlock"]
    /\ TunnelOnly

\* Lines 166-167: t.mu.Unlock(); go t.forward(conn).
AcceptUnlock ==
    /\ tun.acceptPc = "unlock"
    /\ tun' = [tun EXCEPT !.mu = "free", !.conns[tun.held].fwd = "dial",
                          !.held = 0, !.acceptPc = "accept"]
    /\ TunnelOnly

AcceptLoop == AcceptConn \/ AcceptFails \/ AcceptLock \/ AcceptAppend \/ AcceptUnlock

\* Lines 176-179: the dial of the remote host failed; forward logs and returns.
ForwardGivesUpClosingAll(t, k) ==
    [t EXCEPT !.conns = [j \in DOMAIN t.conns |-> Forwarded("closed", "failed", 0)],
              !.listener = "closed"]

ForwardGivesUp(t, k) ==
    [t EXCEPT !.conns[k] = Forwarded(@.local, "failed", 0)]

\* Lines 174-183: forward dials the remote host through the session and starts
\* the two copies, or gives up.
ForwardDial ==
    /\ \E k \in DOMAIN tun.conns, ok \in BOOLEAN :
        /\ tun.conns[k].fwd = "dial"
        /\ tun' = IF ok THEN [tun EXCEPT !.conns[k] = Forwarded(@.local, "copy", 2)]
                         ELSE ForwardGivesUp(tun, k)
    /\ TunnelOnly

\* util.go 15-26: io.Copy of one direction returns, with an error or at the end
\* of the stream; logCopy logs or returns.
CopyEnds ==
    /\ \E k \in DOMAIN tun.conns :
        /\ tun.conns[k].fwd = "copy"
        /\ tun.conns[k].copying > 0
        /\ tun' = [tun EXCEPT !.conns[k].copying = @ - 1]
    /\ TunnelOnly

\* Lines 186-187: Close takes the mutex and starts the range over t.connections.
CloseLock ==
    /\ tun.outcome = "ok"
    /\ tun.closePc = "idle"
    /\ Acquirable(tun.mu)
    /\ tun' = [tun EXCEPT !.mu = "close", !.closePc = "iterate",
                          !.closing = tun.connections, !.closeIdx = 1]
    /\ TunnelOnly

\* Line 189: the error of cl.Close() is dropped and the range goes on.
CloseStopsOnError(failed) == ~failed

CloseGoesOn(failed) == TRUE

\* Lines 188-190: one iteration of the range.
CloseConn ==
    /\ tun.closePc = "iterate"
    /\ tun.closeIdx <= Len(tun.closing)
    /\ \E failed \in BOOLEAN :
        LET k == tun.closing[tun.closeIdx]
            closed == [tun EXCEPT !.conns[k].local = IF failed THEN @ ELSE "closed",
                                  !.closeLog = Append(@, k),
                                  !.closeFailed = IF failed THEN @ \cup {k} ELSE @]
        IN  tun' = IF CloseGoesOn(failed)
                   THEN [closed EXCEPT !.closeIdx = @ + 1]
                   ELSE [closed EXCEPT !.closePc = "done", !.mu = "free"]
    /\ TunnelOnly

\* Lines 191 and 187: return t.localConn.Close(), then the deferred Unlock.
CloseListener ==
    /\ tun.closePc = "iterate"
    /\ tun.closeIdx > Len(tun.closing)
    /\ tun' = [tun EXCEPT !.listener = "closed", !.closeLog = Append(@, ListenerId),
                          !.closePc = "done", !.mu = "free"]
    /\ TunnelOnly

TunnelClose == CloseLock \/ CloseConn \/ CloseListener

\* A tunnel with password authentication and no host key check, and one whose
\* bastion refuses the connection.
ForwardingOptions == {TunnelOptions("", TRUE, "password", "")}

ForwardingSurroundings ==
    {Surroundings(TRUE, "plain", [i \in 1..promptNumRetries |-> PrompterAnswer(TRUE, "")],
                  TRUE, TRUE, b) : b \in BOOLEAN}

TunnelStart == NewTunnelOn(ForwardingOptions, ForwardingSurroundings)

TunnelNext ==
    \/ TunnelStart
    \/ AcceptConn
    \/ AcceptFails
    \/ AcceptLock
    \/ AcceptAppend
    \/ AcceptUnlock
    \/ ForwardDial
    \/ CopyEnds
    \/ CloseLock
    \/ CloseConn
    \/ CloseListener

TunnelInit == Init /\ pgpassword = ""

TunnelSpec == TunnelInit /\ [][TunnelNext]_vars

\* The accept loop is a goroutine of its own: the scheduler runs it whenever it
\* can take a step.
TunnelFairSpec == TunnelSpec /\ WF_vars(AcceptLoop)

----------------------------------------------------------------------------
(* knownHostsCallback: the host key check against the known_hosts file. *)

\* One line of known_hosts as ssh.ParseKnownHosts returns it: the marker
\* ("revoked", "cert-authority" or none), the hosts and the key.
KnownHost(marker, hosts, key) == [marker |-> marker, hosts |-> hosts, key |-> key]

\* The wire form of a public key: its bytes.
Marshal(key) == key

Space == 32

\* bytes.TrimSpace: the bytes without leading and trailing white space.
RECURSIVE TrimLeft(_)
TrimLeft(b) == IF b # <<>> /\ Head(b) = Space THEN TrimLeft(Tail(b)) ELSE b

RECURSIVE TrimRight(_)
TrimRight(b) ==
    IF b # <<>> /\ b[Len(b)] = Space THEN TrimRight(SubSeq(b, 1, Len(b) - 1)) ELSE b

TrimSpace(b) == TrimRight(TrimLeft(b))

\* net.SplitHostPort of the address ssh.Dial was given: the host.
SplitHostPort(hostname) == hostname.host

stringsContains(list, str) == \E i \in DOMAIN list : list[i] = str

\* Line 91: whether the entry decides the check.
EntryApplies(hosts, host, remote) ==
    stringsContains(hosts, host) \/ ~stringsContains(hosts, remote)

\* Lines 58-103: the error the callback returns for the presented key, entry
\* by entry of the file.
RECURSIVE knownHostsCallback(_, _, _, _)
knownHostsCallback(entries, hostname, remote, key) ==
    IF entries = <<>> THEN "unknown_host"
    ELSE LET e == Head(entries)
         IN  IF e.marker = "revoked"
             THEN knownHostsCallback(Tail(entries), hostname, remote, key)
             ELSE IF EntryApplies(e.hosts, SplitHostPort(hostname), remote)
                  THEN IF TrimSpace(Marshal(key)) # TrimSpace(Marshal(e.key))
                       THEN "key_mismatch"
                       ELSE "nil"
                  ELSE knownHostsCallback(Tail(entries), hostname, remote, key)

\* The bastion as the handshake presents it, and another host.
BastionHostname == [host |-> "bastion.example", port |-> 22]

BastionRemote == "10.0.0.7:22"

\* Two public keys; the bytes of the second end in a space.
PublicKeys == {<<7, 1>>, <<7, 32>>}

KnownHostChoices ==
    {KnownHost(m, h, k) : m \in {"", "revoked"},
                          h \in {<<"bastion.example">>, <<BastionRemote>>, <<"other.example">>},
                          k \in PublicKeys}

RECURSIVE KnownHostsUpTo(_)
KnownHostsUpTo(n) ==
    IF n = 0 THEN {<<>>}
    ELSE LET shorter == KnownHostsUpTo(n - 1)
         IN  shorter \cup {Append(f, e) : f \in shorter, e \in KnownHostChoices}

\* The one handshake of a behaviour calls the callback with the key the
\* bastion presents.
VerifyHostKey ==
    /\ last.op = "New"
    /\ \E entries \in KnownHostsUpTo(MaxKnownHosts), key \in PublicKeys :
            last' = [Call("knownHostsCallback", "") EXCEPT
                        !.input = [entries |-> entries, key |-> key],
                        !.err = knownHostsCallback(entries, BastionHostname,
                                                   BastionRemote, key)]
    /\ Unchanged

KnownHostsNext == VerifyHostKey

KnownHostsSpec == Init /\ [][KnownHostsNext]_vars

----------------------------------------------------------------------------
(* The terminal front end: cli.run, cli.command, cli.query. *)

\* A line is the sequence of its characters' codes.
Backslash == 92

\* The characters typed in the model: a space, a backslash, the letters q, a
\* and x.
TypedChars == {Space, Backslash, 113, 97, 120}

RECURSIVE LinesUpTo(_)
LinesUpTo(n) ==
    IF n = 0 THEN {<<>>}
    ELSE LET shorter == LinesUpTo(n - 1)
         IN  shorter \cup {Append(l, c) : l \in shorter, c \in TypedChars}

\* strings.Split(str, " "): the segments between the spaces, one more than
\* there are spaces.
RECURSIVE SplitSpaces(_)
SplitSpaces(str) ==
    IF str = <<>> THEN << <<>> >>
    ELSE LET rest == SplitSpaces(Tail(str))
         IN  IF Head(str) = Space
             THEN << <<>> >> \o rest
             ELSE << <<Head(str)>> \o Head(rest) >> \o Tail(rest)

\* part_000 169-178: the segments trimmed, the empty ones removed.
RECURSIVE DropEmpty(_)
DropEmpty(parts) ==
    IF parts = <<>> THEN <<>>
    ELSE IF TrimSpace(Head(parts)) = <<>> THEN DropEmpty(Tail(parts))
    ELSE <<TrimSpace(Head(parts))>> \o DropEmpty(Tail(parts))

\* part_000 168: args := strings.Split(line[1:], " "), cleaned by the loop.
ArgsOf(line) == DropEmpty(SplitSpaces(Tail(line)))

\* part_000 191-223: the switch over args[0].
CommandOf(word) ==
    CASE word \in {<<97, 99, 116, 105, 118, 101>>, <<97>>} -> "active"    \* "active", "a"
      [] word \in {<<99, 111, 110, 110, 101, 99, 116, 105, 111, 110, 115>>, <<99>>} -> "connections"    \* "connections", "c"
      [] word \in {<<115, 119, 105, 116, 99, 104>>, <<115>>} -> "switch"    \* "switch", "s"
      [] word \in {<<116, 97, 98, 108, 101, 115>>, <<116>>} -> "tables"    \* "tables", "t"
      [] word \in {<<115, 99, 104, 101, 109, 97, 115>>, <<115, 110>>} -> "schemas"    \* "schemas", "sn"
      [] word \in {<<100, 101, 115, 99, 114, 105, 98, 101>>, <<100>>} -> "describe"    \* "describe", "d"
      [] word \in {<<115, 116, 97, 116, 115>>} -> "stats"    \* "stats"
      [] word \in {<<104, 101, 108, 112>>, <<104>>, <<63>>} -> "help"    \* "help", "h", "?"
      [] word \in {<<113, 117, 105, 116>>, <<113>>} -> "quit"    \* "quit", "q"
      [] OTHER -> "unknown"

\* The commands the model types; the others need more than MaxLineLen
\* characters or letters outside TypedChars.
TypedCommands == {"active", "quit", "unknown"}

\* What stops the process while the line is taken apart: line[0] of an empty
\* line (part_000 167), args[0] of an empty argument list (part_000 191).
FaultOfLine(line, args) ==
    IF line = <<>> THEN "index out of range [0] with length 0 (line[0])"
    ELSE IF Head(line) = Backslash /\ args = <<>>
         THEN "index out of range [0] with length 0 (args[0])"
         ELSE ""

\* What stops the process in cli.query: result.Columns of a nil result
\* (part_000 356).
FaultOfResult(l) ==
    IF l.err = "nil" /\ l.query.isNil THEN "nil pointer dereference (result.Columns)" ELSE ""

\* How cli.query found the result of Query.
Handled(l) ==
    IF l.err # "nil" THEN "error" ELSE IF l.query.isNil THEN "nil" ELSE "result"

FrontOnly ==
    UNCHANGED <<cfg, current, currentName, activeQueriers, activeTunnels, pgpassword,
                sessions, listeners, closedQueriers, closedTunnels, pending, catalog,
                tun, displayCache, tasks>>

\* part_000 148-152: run connects to the initial connection, which
\* cmd/dbman/main.go 45-48 found in the configuration; log.Fatal ends the
\* process when the connection fails.
CliStart ==
    /\ cli.pc = "start"
    /\ SwitchConnectionBy({"direct"}, {"none", "ping"})
    /\ cli' = [cli EXCEPT !.pc = IF last'.err = "nil" THEN "loop" ELSE "fatal"]
    /\ UNCHANGED <<tasks, editor>>

\* part_000 155-165: ReadLine ends the loop at the end of the input; any
\* other error but the paste indicator is printed and the loop goes on.
ReadFails(read) ==
    /\ cli' = [newCLI EXCEPT !.read = read,
                             !.pc = IF read = "EOF" THEN "return" ELSE "loop",
                             !.printed = IF read = "EOF" THEN "" ELSE "error"]
    /\ last' = last

\* part_000 166-186: the line is trimmed and run as a command or as a query.
RunLine(read, line) ==
    LET isCommand == line # <<>> /\ Head(line) = Backslash
        args == IF isCommand THEN ArgsOf(line) ELSE <<>>
        fault == FaultOfLine(line, args)
        kind == IF isCommand THEN CommandOf(args[1]) ELSE "query"
        seen == [newCLI EXCEPT !.pc = "loop", !.read = read, !.line = line, !.args = args]
    IN  IF fault # ""
        THEN /\ cli' = [seen EXCEPT !.fault = fault, !.pc = "panic"]
             /\ last' = last
        ELSE IF ~isCommand
        THEN \E rs \in FewResultSets :
                \E q \in {QueryOutcome(current, rs)} :
                    /\ last' = q
                    /\ cli' = [seen EXCEPT
                                !.kind = "query",
                                !.handled = Handled(q),
                                !.fault = FaultOfResult(q),
                                !.printed = CASE Handled(q) = "error" -> "error"
                                              [] Handled(q) = "result" -> "table"
                                              [] OTHER -> "",
                                !.pc = IF FaultOfResult(q) # "" THEN "panic" ELSE "loop"]
        ELSE /\ kind \in TypedCommands
             /\ last' = last
             /\ cli' = [seen EXCEPT
                         !.kind = kind,
                         !.running = kind # "quit",
                         !.pc = IF kind = "quit" THEN "return" ELSE "loop",
                         !.printed = CASE kind = "unknown" -> "error"
                                       [] kind = "active" ->
                                             IF currentName # "" THEN "name"
                                             ELSE "no active connection"
                                       [] OTHER -> ""]

\* part_000 154-187: one iteration of the loop.
CliLine ==
    /\ cli.pc = "loop"
    /\ \/ \E read \in {"EOF", "error"} : ReadFails(read)
       \/ \E read \in {"nil", "ErrPasteIndicator"}, typed \in LinesUpTo(MaxLineLen) :
            \E line \in {TrimSpace(typed)} : RunLine(read, line)
    /\ FrontOnly
    /\ UNCHANGED editor

\* part_000 146: the deferred c.Close() runs when run returns and when it
\* panics; the panic then ends the process.
CliReturn ==
    /\ cli.pc \in {"return", "panic"}
    /\ CloseBy
    /\ cli' = [cli EXCEPT !.pc = IF cli.pc = "panic" THEN "crashed" ELSE "ended"]
    /\ UNCHANGED editor

ReplNext ==
    \/ CliStart
    \/ CliLine
    \/ CliReturn

ReplInit == Init /\ pgpassword = ""

ReplSpec == ReplInit /\ [][ReplNext]_vars

----------------------------------------------------------------------------
(* The editor plugin's DBRun command. *)

\* main.go 243-251 and 253-303: DBRun runs the buffer as a query. It returns
\* the error of Query, writes "no results" for a nil result and for one
\* without columns, and otherwise puts the table in the output window, which
\* the editor may refuse.
DBRun ==
    /\ \E apiOk \in BOOLEAN, q \in {QueryOutcome(current, pending)} :
        LET none == q.query.isNil \/ Len(q.query.Columns) = 0
        IN  /\ last' = q
            /\ editor' = [handled |-> Handled(q),
                          err |-> IF q.err # "nil" THEN q.err
                                  ELSE IF none \/ apiOk THEN "nil" ELSE "api",
                          wrote |-> IF q.err # "nil" THEN ""
                                    ELSE IF none THEN "no results"
                                    ELSE IF apiOk THEN "table" ELSE ""]
    /\ FrontOnly
    /\ UNCHANGED cli

EditorNext ==
    \/ DbAddColumn
    \/ DbAddRow
    \/ DbFail
    \/ QueryConnect
    \/ DBRun

EditorSpec == QueryInit /\ [][EditorNext]_vars

----------------------------------------------------------------------------
(* Properties of the registry. *)

\* The step is a SwitchConnection call.
Switched == last'.op = "SwitchConnection"

NoSideEffects(l) ==
    ~l.newTunnel /\ ~l.prompted /\ ~l.envRead /\ ~l.opened /\ ~l.pinged

\* C1: a SwitchConnection to a name that has a cached handle (a switch to it
\* succeeded before) calls neither NewTunnel nor the prompter, opens nothing
\* and pings nothing; it only makes the cached handle and the name current.
\* So the second of two consecutive switches to a name the first one opened
\* opens nothing: one open for the two.
C1_CachedSwitchIsReassignment ==
    [][/\ (Switched /\ last'.name \in DOMAIN activeQueriers) =>
            /\ last'.err = "nil"
            /\ NoSideEffects(last')
            /\ current' = activeQueriers[last'.name]
            /\ currentName' = last'.name
            /\ UNCHANGED <<cfg, activeQueriers, activeTunnels, sessions, listeners,
                           closedQueriers, closedTunnels>>
       /\ (/\ Switched /\ last.op = "SwitchConnection" /\ last.err = "nil"
           /\ last.opened /\ last'.name = last.name) =>
            ~last'.opened /\ ~last'.newTunnel /\ last'.err = "nil"
      ]_vars

\* C1 witness: a switch to a cached name has just returned.
C1_Witness ==
    /\ last.op = "SwitchConnection" /\ last.err = "nil" /\ ~last.opened
    /\ currentName = last.name /\ last.name \in DOMAIN activeQueriers

C3_RegisteredOnlyAfterPing ==
    [][(Switched /\ last'.name \notin DOMAIN activeQueriers) =>
            /\ (\/ activeQueriers' # activeQueriers
                \/ current' # current
                \/ currentName' # currentName) => (last'.pinged /\ last'.err = "nil")
            /\ last'.err \in {"open", "ping"} =>
                    UNCHANGED <<activeQueriers, current, currentName>>
            /\ (last'.err = "nil") =>
                    /\ last'.pinged
                    /\ activeQueriers' = Put(activeQueriers, last'.name, last'.touched)
                    /\ current' = last'.touched
                    /\ currentName' = last'.name
      ]_vars

\* C3 witness: a ping has just failed while another connection is current.
C3_Witness ==
    /\ last.op = "SwitchConnection" /\ last.err = "ping"
    /\ current # NoHandle /\ currentName # last.name
    /\ last.name \notin DOMAIN activeQueriers

\* C4 as stated: a SwitchConnection that returns an error leaves connection
\* cache, tunnel cache, current pointer and current name as they were.
C4_Original ==
    [][(Switched /\ last'.err # "nil") =>
            UNCHANGED <<activeQueriers, activeTunnels, current, currentName>>]_vars

\* C4 amended: a SwitchConnection that returns an error leaves connection
\* cache, current pointer and current name as they were; the tunnel cache is
\* as it was unless NewTunnel succeeded in that call, and then it has gained
\* exactly that tunnel.
C4_ErrorKeepsAllButNewTunnel ==
    [][(Switched /\ last'.err # "nil") =>
            /\ UNCHANGED <<activeQueriers, current, currentName>>
            /\ \/ activeTunnels' = activeTunnels
               \/ /\ last'.newTunnel /\ last'.err # "tunnel"
                  /\ \E t \in TunnelNames \ DOMAIN activeTunnels :
                        /\ DOMAIN activeTunnels' = DOMAIN activeTunnels \cup {t}
                        /\ \A u \in DOMAIN activeTunnels : activeTunnels'[u] = activeTunnels[u]
            /\ (last'.newTunnel /\ last'.err # "tunnel") => activeTunnels' # activeTunnels
      ]_vars

\* C4 witness: a call has failed after it established a tunnel.
C4_Witness ==
    /\ last.op = "SwitchConnection" /\ last.newTunnel
    /\ last.err \in {"prompt", "unsupported_driver", "open", "ping"}
    /\ "bastion" \in DOMAIN activeTunnels

\* C5: a SwitchConnection with a name that is not configured returns an
\* error, calls neither NewTunnel nor the prompter, opens nothing and leaves
\* connection cache, tunnel cache and current pointer as they were.
C5_UnconfiguredNameFails ==
    [][(Switched /\ last'.name \notin DOMAIN cfg.Connections) =>
            /\ last'.err = "not_configured"
            /\ NoSideEffects(last')
            /\ UNCHANGED <<activeQueriers, activeTunnels, current, currentName,
                           sessions, listeners>>
      ]_vars

\* C5 witness: the call with an unconfigured name has returned while a
\* connection is current.
C5_Witness ==
    /\ last.op = "SwitchConnection" /\ last.name = "nope" /\ last.err = "not_configured"
    /\ current # NoHandle

Delegating == {"ListTables", "ListSchemas", "DescribeTable", "Query", "Stats"}

\* C6 as stated: while the current connection is unset each of ListTables,
\* ListSchemas, DescribeTable, Query and Stats fails with a
\* no-active-connection error and touches no connection.
C6_Original ==
    (last.op \in Delegating /\ current = NoHandle) =>
        (last.err = "no_active_connection" /\ last.touched = NoHandle)

\* C6 amended: while the current connection is unset ListTables, ListSchemas,
\* DescribeTable and Query fail with a no-active-connection error, Stats
\* returns the zero statistics without an error, and none touches a connection.
C6_UnsetCurrent ==
    (last.op \in Delegating /\ current = NoHandle) =>
        /\ last.touched = NoHandle
        /\ last.op # "Stats" => last.err = "no_active_connection" /\ last.result = "none"
        /\ last.op = "Stats" => last.err = "nil" /\ last.result = "zero_stats"
        /\ last.query = NilResult

\* C6 witness: Stats has returned while no connection is current.
C6_Witness ==
    last.op = "Stats" /\ current = NoHandle /\ last.result = "zero_stats"

\* C7: Close calls Close on every cached connection and on every active
\* tunnel, whichever of these calls fail, and returns no error.
C7_CloseClosesAll ==
    [][(last'.op = "Close") =>
            /\ closedQueriers' = closedQueriers \cup Range(activeQueriers)
            /\ closedTunnels' = closedTunnels \cup Range(activeTunnels)
            /\ last'.err = "nil"
      ]_vars

\* C7 witness: Close has returned after a close call failed, with two
\* connections and a tunnel closed.
C7_Witness ==
    /\ last.op = "Close" /\ last.closeErrors # {}
    /\ Cardinality(closedQueriers) >= 2 /\ closedTunnels # {}
    /\ Range(activeQueriers) \subseteq closedQueriers

\* C8: SwitchConnection never writes the configured connection specs: the
\* tunnel endpoint and the resolved password go into the per-call copy only,
\* from which the handle is opened.
C8_ConfigNotMutated ==
    [][Switched =>
            /\ cfg' = cfg
            /\ (last'.err = "nil" /\ last'.opened) =>
                LET spec == cfg.Connections[last'.name]
                IN  /\ spec.Tunnel # "" =>
                            /\ current'.host = activeTunnels'[spec.Tunnel].localHost
                            /\ current'.port = activeTunnels'[spec.Tunnel].localPort
                    /\ spec.Tunnel = "" =>
                            current'.host = spec.Host /\ current'.port = spec.Port
                    /\ spec.Password # "" => current'.password = spec.Password
                    /\ spec.Password = "" => current'.password # ""
      ]_vars

\* C8 witness: a tunnelled connection without a configured password has been
\* opened with a prompted password.
C8_Witness ==
    /\ last.op = "SwitchConnection" /\ last.name = "viaA" /\ last.err = "nil"
    /\ last.prompted /\ current.host = "127.0.0.1" /\ current.password = "typed"

----------------------------------------------------------------------------
(* Properties of Query. *)

\* Query got a rows handle and its column types.
Answered ==
    /\ last.op = "Query" /\ last.touched # NoHandle
    /\ last.input.fail \notin {"query", "columns"}

ColumnNames(cols) == [j \in DOMAIN cols |-> cols[j].name]

\* C9: a statement with zero columns gives a nil result and a nil error; a
\* statement with at least one column and zero rows gives a non-nil result
\* with the column names and no rows.
C9_NilOnlyWithoutColumns ==
    Answered =>
        /\ Len(last.input.cols) = 0 => (last.query.isNil /\ last.err = "nil")
        /\ (Len(last.input.cols) > 0 /\ last.input.rows = <<>>) =>
                /\ ~last.query.isNil
                /\ last.query.Columns = ColumnNames(last.input.cols)
                /\ last.query.Rows = <<>>

\* C9 witness: a query with two columns and no rows has returned.
C9_Witness ==
    /\ Answered /\ Len(last.input.cols) = 2 /\ last.input.rows = <<>>
    /\ last.err = "nil"

\* The value a fresh scan target of the column's type holds after scanning v.
Decoded(col, v) == ScanInto(NewScanner(ScannerKind(col.typeName)), v).target

\* C10: a successful Query on a result set with at least one column returns
\* the column names in order and one row per row of the result set in order;
\* each row has one value per column, value j of row i being the decoded
\* value of column j of row i (for a type name Query does not know: the
\* driver's value itself, nil for a null).
C10_RowsAlignedWithColumns ==
    (Answered /\ last.err = "nil" /\ Len(last.input.cols) > 0) =>
        LET in == last.input
            out == last.query
        IN  /\ ~out.isNil
            /\ out.Columns = ColumnNames(in.cols)
            /\ Len(out.Rows) = Len(in.rows)
            /\ \A i \in 1..Len(in.rows) :
                /\ Len(out.Rows[i]) = Len(in.cols)
                /\ \A j \in 1..Len(in.cols) :
                    /\ out.Rows[i][j] = Decoded(in.cols[j], in.rows[i][j])
                    /\ ScannerKind(in.cols[j].typeName) = "interface" =>
                            DriverValue(out.Rows[i][j].kind, out.Rows[i][j].i,
                                        out.Rows[i][j].s, out.Rows[i][j].b) = in.rows[i][j]

\* C10 witness: a query with two columns and two different rows has succeeded.
C10_Witness ==
    /\ Answered /\ last.err = "nil"
    /\ Len(last.query.Columns) = 2 /\ Len(last.query.Rows) = 2
    /\ last.query.Rows[1] # last.query.Rows[2]

----------------------------------------------------------------------------
(* Properties of the secret resolution and of ListConnections. *)

\* The step is a SwitchConnection call that got to the password stage: the
\* name is configured, has no cached handle, and the tunnel stage did not fail.
ResolvedSecret ==
    /\ Switched
    /\ last'.name \in DOMAIN cfg.Connections
    /\ last'.name \notin DOMAIN activeQueriers
    /\ last'.err # "tunnel"

\* C11: when SwitchConnection opens an uncached connection the secret is
\* resolved in strict order. A non-empty configured password is used, and
\* neither PGPASSWORD is read nor the prompter called. Otherwise a non-empty
\* PGPASSWORD is used and the prompter is not called. Otherwise the prompter
\* is called exactly once, with echo disabled, its answer is used, and its
\* error makes the switch fail before anything is opened.
C11_SecretOrder ==
    [][ResolvedSecret =>
        LET configured == cfg.Connections[last'.name].Password
            used == last'.touched.password
            opened == last'.touched # NoHandle
        IN  /\ configured # "" =>
                /\ ~last'.envRead /\ ~last'.prompted /\ last'.prompts = 0
                /\ opened => used = configured
            /\ (configured = "" /\ pgpassword # "") =>
                /\ last'.envRead /\ ~last'.prompted /\ last'.prompts = 0
                /\ opened => used = pgpassword
            /\ (configured = "" /\ pgpassword = "") =>
                /\ last'.prompted /\ last'.prompts = 1 /\ last'.echos = <<FALSE>>
                /\ last'.promptFailed =>
                        /\ last'.err = "prompt" /\ ~last'.opened /\ ~opened
                        /\ UNCHANGED <<current, currentName, activeQueriers>>
                /\ opened => (~last'.promptFailed /\ used = "typed")
      ]_vars

\* A switch to the connection with a configured password succeeded while
\* PGPASSWORD was set: the configured password was used, the variable not read.
C11_Witness ==
    /\ last.op = "SwitchConnection" /\ last.name = "direct" /\ last.err = "nil"
    /\ pgpassword = "envpw" /\ ~last.envRead /\ last.prompts = 0
    /\ current.password = "cfgpw"

\* C12: ListConnections returns two lists of equal length; every configured
\* connection name is in the first exactly once, and nothing else is; the
\* flag at position i is true if and only if the name at position i has a
\* handle in the connection cache.
C12_ListConnections ==
    last.op = "ListConnections" =>
        /\ Len(last.names) = Len(last.active)
        /\ \A k \in DOMAIN cfg.Connections :
                Cardinality({i \in DOMAIN last.names : last.names[i] = k}) = 1
        /\ \A i \in DOMAIN last.names :
                /\ last.names[i] \in DOMAIN cfg.Connections
                /\ last.active[i] = (last.names[i] \in DOMAIN activeQueriers)

\* A listing made while some but not all configured names have a handle.
C12_Witness ==
    /\ last.op = "ListConnections"
    /\ \E i, j \in DOMAIN last.names : last.active[i] /\ ~last.active[j]

----------------------------------------------------------------------------
(* Properties of the metadata calls. *)

\* The last call was a DescribeTable that got to the current connection.
Described == last.op = "DescribeTable" /\ last.touched # NoHandle

\* The positions of the separators in a name.
Separators(name) == {i \in DOMAIN name : name[i] = Sep}

\* C13: DescribeTable splits the name on '.'. A name of one segment is the
\* table, in schema "public"; a name of two segments is schema and table; a
\* name of three or more segments gets a validation error and no query is
\* sent to the database.
C13_SegmentsOfTableName ==
    Described =>
        LET seps == Separators(last.arg)
            dot == CHOOSE i \in seps : TRUE
        IN  /\ seps = {} =>
                /\ last.err # "invalid_table_name"
                /\ last.issued = <<Issued("columns", <<Public, last.arg>>)>>
            /\ Cardinality(seps) = 1 =>
                /\ last.err # "invalid_table_name"
                /\ last.issued =
                        <<Issued("columns", <<SubSeq(last.arg, 1, dot - 1),
                                              SubSeq(last.arg, dot + 1, Len(last.arg))>>)>>
            /\ Cardinality(seps) >= 2 =>
                /\ last.err = "invalid_table_name"
                /\ last.issued = <<>>
                /\ last.schema.isNil

\* DescribeTable("t.t.t") has returned the validation error.
C13_Witness ==
    /\ Described /\ last.arg = <<"t", Sep, "t", Sep, "t">>
    /\ last.err = "invalid_table_name" /\ last.issued = <<>>

\* C14 as stated: DescribeTable with the empty name fails with a validation
\* error and sends no query.
C14_Original ==
    (Described /\ last.arg = <<>>) =>
        (last.err = "invalid_table_name" /\ last.issued = <<>>)

\* C15: for a table name t without a '.', DescribeTable(t) and
\* DescribeTable("public." + t), one called after the other on the same
\* database, send the same query with the same schema and table arguments
\* and return the same result and error, the reported table name included.
C15_PublicIsDefaultSchema ==
    [][(/\ Described /\ last'.op = "DescribeTable" /\ last'.touched # NoHandle
        /\ last'.build = last.build
        /\ Separators(last.arg) = {}
        /\ last'.arg = Public \o <<Sep>> \o last.arg) =>
            /\ last'.issued = last.issued
            /\ last'.schema = last.schema
            /\ last'.err = last.err
            /\ last'.result = last.result
      ]_vars

\* DescribeTable("public.t") has returned the columns of table t under the name t.
C15_Witness ==
    /\ Described /\ last.arg = Public \o <<Sep, "t">>
    /\ ~last.schema.isNil /\ last.schema.Name = <<"t">> /\ last.schema.Columns # <<>>

\* C16: DescribeTable returns one column per column row of the table, in
\* the order of their ordinal positions; the attribute list of each is
\* "DEFAULT <expr>" if and only if the column has a default, followed by
\* exactly one nullability tag, "NULL" for a nullable column and "NOT NULL"
\* otherwise: one or two attributes, the nullability tag last.
C16_ColumnAttributes ==
    (Described /\ ~last.schema.isNil) =>
        LET args == last.issued[1].args
            rows == {r \in catalog.columns :
                        r.table_schema = args[1] /\ r.table_name = args[2]}
            cols == last.schema.Columns
        IN  /\ Len(cols) = Cardinality(rows)
            /\ \A i \in DOMAIN cols :
                    \E r \in rows :
                        LET a == cols[i].Attrs
                        IN  /\ r.column_name = cols[i].Name
                            /\ Cardinality({o \in rows :
                                    o.ordinal_position < r.ordinal_position}) = i - 1
                            /\ Len(a) \in {1, 2}
                            /\ a[Len(a)] = (IF r.is_nullable = "YES" THEN "NULL" ELSE "NOT NULL")
                            /\ (Len(a) = 2) = r.column_default.Valid
                            /\ Len(a) = 2 => a[1] = "DEFAULT " \o r.column_default.String

\* A table was described that has a column with a default and one without.
C16_Witness ==
    /\ Described /\ ~last.schema.isNil
    /\ \E i, j \in DOMAIN last.schema.Columns :
            /\ i < j
            /\ Len(last.schema.Columns[i].Attrs) = 2
            /\ Len(last.schema.Columns[j].Attrs) = 1

\* C17 as stated: ListTables of the registry called with an empty schema
\* returns exactly the tables of schema "public", called with a schema it
\* returns exactly the tables of that schema (each once; views may be
\* counted as tables or not).
C17_Original ==
    (last.op = "ListTables" /\ last.touched # NoHandle /\ last.err = "nil") =>
        LET schema == IF last.arg = <<>> THEN Public ELSE last.arg
            rows == {r \in catalog.tables : r.table_schema = schema}
            names == {last.tables[i] : i \in DOMAIN last.tables}
        IN  /\ Len(last.tables) = Cardinality(names)
            /\ {r.table_name : r \in {o \in rows : o.table_type = "BASE TABLE"}}
                    \subseteq names
            /\ names \subseteq {r.table_name : r \in rows}

----------------------------------------------------------------------------
(* Properties of the decoders. *)

\* The signed 16-bit integers.
InInt16(i) == -32768 <= i /\ i <= 32767

\* C19 as stated: in the result of a query over integer columns a null
\* cell renders as "NULL" and a non-null cell as exactly the decimal string
\* of the integer the driver delivered, whatever the row before it held.
C19_Original ==
    (Answered /\ last.err = "nil" /\ Len(last.input.cols) > 0) =>
        \A i \in DOMAIN last.input.rows : \A j \in DOMAIN last.input.cols :
            LET cell == last.input.rows[i][j]
                text == String(last.query.Rows[i][j])
            IN  /\ cell.kind = "nil" => text = "NULL"
                /\ cell.kind = "int64" => text = FormatInt(cell.i)

\* C19 amended: a null cell renders as "NULL" (never "0"); a non-null cell
\* renders as exactly the decimal string of the integer the driver
\* delivered when the integer is within the width of the decoder; the 16-bit
\* decoder renders an integer outside the signed 16-bit range as the decimal
\* string of the 16-bit integer with the same low 16 bits. Each rendering
\* reflects its own row only, the decoders being reused from row to row.
C19_IntegerRendering ==
    (Answered /\ last.err = "nil" /\ Len(last.input.cols) > 0) =>
        \A i \in DOMAIN last.input.rows : \A j \in DOMAIN last.input.cols :
            LET cell == last.input.rows[i][j]
                text == String(last.query.Rows[i][j])
                narrow == ScannerKind(last.input.cols[j].typeName) = "nullInt16"
            IN  /\ cell.kind = "nil" => text = "NULL" /\ text # "0"
                /\ (cell.kind = "int64" /\ (narrow => InInt16(cell.i))) =>
                        text = FormatInt(cell.i)
                /\ (cell.kind = "int64" /\ narrow /\ ~InInt16(cell.i)) =>
                        \E k \in {cell.i - 65536, cell.i + 65536} :
                            InInt16(k) /\ text = FormatInt(k)

\* A query over a 16-bit column has returned a null row after a row with an
\* integer, and over a second integer column the reverse.
C19_Witness ==
    /\ Answered /\ last.err = "nil" /\ Len(last.input.rows) = 2
    /\ \E j, k \in DOMAIN last.input.cols :
            /\ last.input.cols[j].typeName = "SMALLINT"
            /\ last.input.rows[1][j] = DriverInt(-7)
            /\ last.input.rows[2][j] = DriverNil
            /\ String(last.query.Rows[1][j]) = "-7"
            /\ String(last.query.Rows[2][j]) = "NULL"
            /\ last.input.cols[k].typeName # "SMALLINT"
            /\ last.input.rows[1][k] = DriverNil
            /\ last.input.rows[2][k].kind = "int64"

\* C18: a query over a UUID column whose cells are null or encodings of
\* identifiers succeeds, and every cell that holds an identifier as its 16
\* raw bytes, as its 32 hex digits or in the hyphenated 36-character form,
\* in any letter case, is decoded to a valid value with the bytes of the
\* identifier, whose display string is the lower-case hyphenated 8-4-4-4-12
\* form of the identifier; scanning that display string yields the same value.
C18_UuidCanonical ==
    (/\ Answered /\ last.input.fail = "none" /\ Len(last.input.cols) > 0
     /\ \A i \in DOMAIN last.input.rows :
            last.input.rows[i][1] # DriverChars(<<97, 98, 99>>)) =>
        /\ last.err = "nil"
        /\ \A i \in DOMAIN last.input.rows : \A k \in 1..MaxUuids :
                last.input.rows[i][1] \in UuidEncodings(UuidBytes(k)) =>
                    LET out == last.query.Rows[i][1]
                        text == String(out)
                    IN  /\ out.valid /\ out.UUID = UuidBytes(k)
                        /\ text = Hex36(UuidBytes(k), "lower")
                        /\ Len(text) = 36
                        /\ \A p \in 1..36 :
                                IF p \in {9, 14, 19, 24} THEN text[p] = 45
                                ELSE (48 <= text[p] /\ text[p] <= 57)
                                        \/ (97 <= text[p] /\ text[p] <= 102)
                        /\ ScanInto(NewScanner("uuidVal"), DriverChars(text))
                                = Scanned(TRUE, out)

\* A query has returned the same display string for an identifier given
\* as raw bytes in one row and in the upper-case hyphenated form in the next.
C18_Witness ==
    /\ Answered /\ last.err = "nil" /\ Len(last.input.rows) = 2
    /\ \E k \in 1..MaxUuids :
            /\ last.input.rows[1][1] = DriverBytes(UuidBytes(k))
            /\ last.input.rows[2][1] = DriverChars(Hex36(UuidBytes(k), "upper"))
            /\ String(last.query.Rows[1][1]) = String(last.query.Rows[2][1])
            /\ Len(String(last.query.Rows[1][1])) = 36

----------------------------------------------------------------------------
(* Properties of the driver selection. *)

\* C20 as stated: a SwitchConnection to a configured name without a cached
\* handle whose driver is not "postgres" fails at once with the
\* unsupported-driver error: no NewTunnel call, no read of PGPASSWORD, no
\* prompt, no open, no ping, and nothing registered or changed.
C20_Original ==
    [][(/\ Switched
        /\ last'.name \in DOMAIN cfg.Connections
        /\ last'.name \notin DOMAIN activeQueriers
        /\ cfg.Connections[last'.name].Driver # "postgres") =>
            /\ last'.err = "unsupported_driver"
            /\ NoSideEffects(last')
            /\ UNCHANGED <<current, currentName, activeQueriers, activeTunnels,
                           sessions, listeners>>
      ]_vars

----------------------------------------------------------------------------
(* Properties of the tunnels. *)

\* C21 as stated: a SwitchConnection for a connection whose tunnel name is
\* not a configured tunnel fails with a configuration error that names the
\* tunnel; NewTunnel is not called and no listener is bound for it.
C21_Original ==
    [][(/\ Switched
        /\ last'.name \in DOMAIN cfg.Connections
        /\ last'.name \notin DOMAIN activeQueriers
        /\ cfg.Connections[last'.name].Tunnel # ""
        /\ cfg.Connections[last'.name].Tunnel \notin DOMAIN cfg.Tunnels) =>
            /\ last'.err = "tunnel_not_configured"
            /\ ~last'.newTunnel
            /\ UNCHANGED <<listeners, sessions, activeTunnels>>
      ]_vars

\* C26 as stated: in no reachable state is a local listener bound for a
\* tunnel name for which no transport session has been opened.
C26_Original ==
    \A t \in DOMAIN listeners : listeners[t] > 0 => sessions[t] > 0

\* C24: NewTunnel checks the host key in exactly one way: against the pinned
\* key when a host public key file is configured, whatever the insecure flag
\* says; otherwise not at all when the insecure flag is set; otherwise against
\* the known-hosts file.
C24_HostKeyMode ==
    tun.outcome # "none" =>
        /\ tun.hostKey \in {"pinned", "insecure", "known_hosts"}
        /\ tun.spec.HostPublicKeyFile # "" => tun.hostKey = "pinned"
        /\ (tun.spec.HostPublicKeyFile = "" /\ tun.spec.DisableVerifyKnownHost) =>
                tun.hostKey = "insecure"
        /\ (tun.spec.HostPublicKeyFile = "" /\ ~tun.spec.DisableVerifyKnownHost) =>
                tun.hostKey = "known_hosts"

C24_Witness ==
    /\ tun.outcome = "ok"
    /\ tun.spec.HostPublicKeyFile # ""
    /\ tun.spec.DisableVerifyKnownHost
    /\ tun.hostKey = "pinned"

\* The requests whose answer decrypts the private key.
RightAnswers ==
    {i \in DOMAIN tun.env.answers :
        ~tun.env.answers[i].err /\ tun.env.answers[i].answer = KeyPassphrase}

\* The signer callback ran on an encrypted private key.
AskedToSign ==
    /\ tun.outcome \in {"dial_error", "ok"}
    /\ tun.env.bastionOk
    /\ tun.spec.AuthMethod = "public_key"
    /\ tun.env.key = "encrypted"

\* C25: with an encrypted private key, a configured passphrase means the
\* prompter is never called; without one the prompter is called at most
\* promptNumRetries times, the calls stop at the first answer that decrypts the
\* key, and when no answer does (wrong passphrase or prompter error each time)
\* the signer fails with a decryption error and the tunnel is not established.
C25_PassphraseRetries ==
    AskedToSign =>
        /\ tun.prompts <= promptNumRetries
        /\ tun.spec.PrivateKeyPassphrase # "" => tun.prompts = 0
        /\ tun.spec.PrivateKeyPassphrase = "" =>
            IF RightAnswers = {}
            THEN /\ tun.prompts = promptNumRetries
                 /\ tun.signer = "decrypt_error"
                 /\ tun.outcome = "dial_error"
            ELSE /\ tun.prompts \in RightAnswers
                 /\ \A i \in RightAnswers : tun.prompts <= i
                 /\ tun.signer = "ok"

C25_Witness ==
    /\ AskedToSign
    /\ tun.spec.PrivateKeyPassphrase = ""
    /\ tun.env.answers[1].err
    /\ tun.prompts = 2
    /\ tun.signer = "ok"
    /\ tun.outcome = "ok"

\* C22: Tunnel.Close closes every connection that is tracked when it takes the
\* mutex, in order, and only then the listener; a close that fails does not
\* stop it, so whenever Close has returned the listener is closed.
C22_CloseOrder ==
    /\ tun.closePc = "iterate" =>
            /\ tun.listener = "open"
            /\ tun.closing = tun.connections
            /\ tun.closeLog = SubSeq(tun.closing, 1, tun.closeIdx - 1)
    /\ tun.closePc = "done" =>
            /\ tun.listener = "closed"
            /\ tun.closeLog = tun.closing \o <<ListenerId>>
    /\ tun.listener = "closed" => tun.closePc = "done"

C22_Witness ==
    /\ tun.closePc = "done"
    /\ tun.listener = "closed"
    /\ Len(tun.closing) = 2
    /\ tun.closeFailed # {}

\* The forward of connection k failed in this step: its dial of the remote
\* host, or one of its two copies.
ForwardFails(k) ==
    \/ tun.conns[k].fwd = "dial" /\ tun'.conns[k].fwd = "failed"
    \/ tun.conns[k].fwd = "copy" /\ tun'.conns[k].copying < tun.conns[k].copying

\* C27: when the dial of the remote host or a copy fails for one accepted
\* connection, the accept loop, the listener, the session, the tracked set and
\* every other connection (its copies included) are left as they were, and no
\* connection is closed.
C27_ForwardFailureIsLocal ==
    [][\A k \in DOMAIN tun.conns :
        ForwardFails(k) =>
            /\ tun'.acceptPc = tun.acceptPc
            /\ tun'.listener = tun.listener
            /\ tun'.session = tun.session
            /\ tun'.closePc = tun.closePc
            /\ tun'.connections = tun.connections
            /\ DOMAIN tun'.conns = DOMAIN tun.conns
            /\ tun'.conns[k].local = tun.conns[k].local
            /\ \A j \in DOMAIN tun.conns \ {k} : tun'.conns[j] = tun.conns[j]
      ]_vars

C27_Witness ==
    /\ Len(tun.conns) = 2
    /\ tun.conns[1].fwd = "failed"
    /\ tun.conns[2] = Forwarded("open", "copy", 2)
    /\ tun.acceptPc = "accept"
    /\ tun.listener = "open"

\* Accept returned an error in this step.
AcceptFailed ==
    /\ tun.acceptPc = "accept"
    /\ tun'.acceptPc = "done" \/ tun'.logged # tun.logged

\* C28: an accept error that is not temporary ends the accept loop for good:
\* afterwards nothing is accepted, tracked or forwarded. A temporary accept
\* error is logged and the loop goes on accepting. Once the listener is closed
\* the loop eventually ends.
C28_AcceptLoop ==
    /\ [][/\ AcceptFailed =>
                IF tun'.acceptErr.temporary
                THEN tun'.acceptPc = "accept" /\ tun'.logged = tun.logged + 1
                ELSE tun'.acceptPc = "done" /\ tun'.logged = tun.logged
          /\ tun.acceptPc = "done" =>
                /\ tun'.acceptPc = "done"
                /\ tun'.connections = tun.connections
                /\ Len(tun'.conns) = Len(tun.conns)
                /\ \A k \in DOMAIN tun.conns :
                        tun.conns[k].fwd = "new" => tun'.conns[k].fwd = "new"
         ]_vars
    /\ (tun.listener = "closed") ~> (tun.acceptPc = "done")

C28_Witness ==
    /\ tun.acceptPc = "done"
    /\ tun.listener = "closed"
    /\ tun.logged > 0
    /\ Len(tun.connections) > 0

\* C29: the accept loop appends to the tracked set only while it holds the
\* tunnel's mutex and Close ranges over the tracked set only while it holds
\* it, so an append and the range of Close are never in progress together.
C29_MutexGuards ==
    /\ tun.acceptPc \in {"append", "unlock"} => tun.mu = "accept"
    /\ tun.closePc = "iterate" => tun.mu = "close"
    /\ ~(tun.acceptPc \in {"append", "unlock"} /\ tun.closePc = "iterate")

C29_Witness ==
    /\ tun.acceptPc = "lock"
    /\ tun.closePc = "iterate"
    /\ tun.closeIdx <= Len(tun.closing)

\* The name "schema.table".
Qualified(schema, table) == schema \o <<Sep>> \o table

\* The schema of the ListTables call that precedes call i of a refreshCache.
SchemaAt(i) ==
    LET before == {j \in 1..i : last.calls[j].op = "ListTables"}
    IN  last.calls[CHOOSE j \in before : \A j2 \in before : j2 <= j].arg

\* C23 as stated: a refreshCache that succeeds has called ListSchemas once,
\* ListTables once for each schema returned, and DescribeTable once for each
\* table returned, with the name "schema.table"; and it has stored, under the
\* current connection name, the schemas in the order of ListSchemas.
C23_Original ==
    (last.op = "refreshCache" /\ last.err = "nil") =>
        /\ Cardinality({i \in DOMAIN last.calls : last.calls[i].op = "ListSchemas"}) = 1
        /\ \A k \in DOMAIN last.schemas :
                Cardinality({i \in DOMAIN last.calls :
                                last.calls[i] = Invoked("ListTables", last.schemas[k])}) = 1
        /\ \A i \in DOMAIN last.calls :
                last.calls[i].op = "DescribeTable" =>
                    \E table \in {r.table_name : r \in catalog.tables} :
                        last.calls[i].arg = Qualified(SchemaAt(i), table)
        /\ Has(displayCache, last.name)
        /\ [k \in DOMAIN displayCache[last.name] |-> displayCache[last.name][k].Name]
                = last.schemas

\* C30 as stated: at no time are two goroutines inside methods of the same
\* registry.
C30_Original ==
    Cardinality({i \in DOMAIN tasks : InRegistry(tasks[i])}) <= 1

----------------------------------------------------------------------------
(* Properties settled last. *)

\* C40: a query over 16-bit columns whose database does not fail succeeds
\* whatever integers the driver delivers, and every non-null cell of a 16-bit
\* column is stored as a valid value that is the delivered integer modulo
\* 2^16 read as a signed number, which is the delivered integer itself when
\* that is within -32768..32767.
C40_Int16Truncation ==
    (Answered /\ last.input.fail = "none" /\ Len(last.input.cols) > 0) =>
        /\ last.err = "nil"
        /\ \A i \in DOMAIN last.input.rows : \A j \in DOMAIN last.input.cols :
            LET cell == last.input.rows[i][j]
                stored == last.query.Rows[i][j]
            IN  (/\ ScannerKind(last.input.cols[j].typeName) = "nullInt16"
                 /\ cell.kind = "int64") =>
                    /\ stored.valid
                    /\ stored.i = ((cell.i + 32768) % 65536) - 32768
                    /\ InInt16(cell.i) => stored.i = cell.i

C40_Witness ==
    /\ Answered /\ last.err = "nil" /\ Len(last.input.rows) = 2
    /\ \E j \in DOMAIN last.input.cols :
            /\ last.input.cols[j].typeName = "SMALLINT"
            /\ last.input.rows[1][j] = DriverInt(40000)
            /\ last.query.Rows[1][j].valid
            /\ last.query.Rows[1][j].i = -25536
            /\ last.input.rows[2][j] = DriverInt(-7)
            /\ last.query.Rows[2][j].i = -7

\* C38 as stated: when NewTunnel returns an error, nothing it opened during
\* the call is left open; no local listener stays bound after a failed dial
\* to the bastion.
C38_Original ==
    tun.outcome \in {"early_error", "listen_error", "dial_error"} =>
        tun.listener # "open"

\* C37 as stated: once Close has returned and the accept loop has stopped,
\* Close was called on every local connection the loop accepted, the one that
\* was accepted while Close ran and appended after Close's unlock included.
C37_Original ==
    (tun.closePc = "done" /\ tun.acceptPc = "done") =>
        \A k \in DOMAIN tun.conns :
            k \in Range(tun.closeLog) \/ tun.conns[k].local = "closed"

\* The parts of C34 that do not depend on the names the configuration uses:
\* a set current handle is the handle cached under the current name, which is
\* a configured name, and every key of the connection cache is a configured
\* name.
CurrentIsCached ==
    /\ current # NoHandle =>
        /\ currentName \in DOMAIN cfg.Connections
        /\ Has(activeQueriers, currentName)
        /\ current = activeQueriers[currentName]
    /\ currentName # "" => current # NoHandle
    /\ DOMAIN activeQueriers \subseteq DOMAIN cfg.Connections

\* C34 as stated: in every reachable state the current handle is unset
\* exactly when the current name is empty; when it is set the current name is
\* a configured name present in the connection cache and the current handle
\* is the handle cached under it; every cache key is a configured name.
C34_Original ==
    /\ (current = NoHandle) <=> (currentName = "")
    /\ CurrentIsCached

\* C35: a tunnel entered in the tunnel cache forwards to the host:port of the
\* connection whose SwitchConnection call created it, and the entry never
\* changes afterwards; a call that opens another connection with the same
\* tunnel name binds no listener and opens no session, and the connection it
\* opens is to the local end of the cached tunnel, whose streams go to the
\* first connection's host:port.
C35_TunnelTargetFixed ==
    [][/\ \A t \in DOMAIN activeTunnels :
            Has(activeTunnels', t) /\ activeTunnels'[t] = activeTunnels[t]
       /\ \A t \in DOMAIN activeTunnels' \ DOMAIN activeTunnels :
            /\ Switched
            /\ cfg.Connections[last'.name].Tunnel = t
            /\ ForwardTarget(activeTunnels'[t]) =
                    [host |-> cfg.Connections[last'.name].Host,
                     port |-> cfg.Connections[last'.name].Port]
       /\ (/\ Switched
           /\ last'.opened
           /\ Has(activeTunnels, cfg.Connections[last'.name].Tunnel)) =>
                LET tunnel == activeTunnels[cfg.Connections[last'.name].Tunnel]
                IN  /\ ~last'.newTunnel
                    /\ UNCHANGED <<listeners, sessions, activeTunnels>>
                    /\ last'.err = "nil" =>
                        /\ activeQueriers'[last'.name].host = tunnel.localHost
                        /\ activeQueriers'[last'.name].port = tunnel.localPort
      ]_vars

C35_Witness ==
    /\ last.op = "SwitchConnection" /\ last.name = "viaB" /\ last.opened
    /\ ~last.newTunnel /\ last.err = "nil"
    /\ Has(activeQueriers, "viaA")
    /\ activeQueriers["viaB"].port = activeTunnels["bastion"].localPort
    /\ activeQueriers["viaA"].port = activeTunnels["bastion"].localPort
    /\ ForwardTarget(activeTunnels["bastion"]) = [host |-> "db2", port |-> 5432]
    /\ cfg.Connections["viaB"].Host = "db3"

\* C36: Close leaves the connection cache, the tunnel cache, the current
\* handle and the current name as they were. Whatever was closed before,
\* ListConnections flags every name of the connection cache as active, a
\* SwitchConnection to a name whose cached handle was closed succeeds without
\* tunnel, prompt, open or ping and makes that closed handle current, and
\* Query is sent to the current handle also when it was closed.
C36_CloseKeepsCaches ==
    [][/\ last'.op = "Close" =>
            UNCHANGED <<activeQueriers, activeTunnels, current, currentName>>
       /\ last'.op = "ListConnections" =>
            \A i \in DOMAIN last'.names :
                (/\ Has(activeQueriers, last'.names[i])
                 /\ activeQueriers[last'.names[i]] \in closedQueriers) => last'.active[i]
       /\ (/\ Switched
           /\ Has(activeQueriers, last'.name)
           /\ activeQueriers[last'.name] \in closedQueriers) =>
                /\ last'.err = "nil"
                /\ NoSideEffects(last')
                /\ current' = activeQueriers[last'.name]
                /\ currentName' = last'.name
                /\ UNCHANGED <<activeQueriers, closedQueriers>>
       /\ (last'.op = "Query" /\ current # NoHandle /\ current \in closedQueriers) =>
                /\ last'.touched = current
                /\ last'.err # "no_active_connection"
      ]_vars

C36_Witness ==
    /\ last.op = "Query" /\ last.touched = current /\ last.err = "nil"
    /\ current \in closedQueriers
    /\ currentName = "viaA"
    /\ activeQueriers["viaA"] = current
    /\ activeTunnels["bastion"] \in closedTunnels
    /\ \A n \in DOMAIN activeQueriers : activeQueriers[n] \in closedQueriers

\* Whether rows.Scan takes row i of the result set the last Query ran on.
RowScans(i) ==
    ScanRow([j \in DOMAIN last.input.cols |->
                NewScanner(ScannerKind(last.input.cols[j].typeName))],
            last.input.rows[i]).ok

\* C33: a Query that got a rows handle from the connection has closed it when
\* it returns, wherever it returns: at the column-type error, at the nil
\* result of a statement without columns, at a scan error and at the end. It
\* scans no row on the first two paths, every row when no Scan fails, and
\* the rows up to the first whose Scan fails otherwise.
C33_RowsClosed ==
    (last.op = "Query" /\ last.rowsObtained) =>
        /\ last.rowsClosed
        /\ (last.err = "columns" \/ Len(last.input.cols) = 0) => last.scans = 0
        /\ (last.err \in {"nil", "rows"} /\ Len(last.input.cols) > 0) =>
                /\ last.scans = Len(last.input.rows)
                /\ Len(last.query.Rows) = Len(last.input.rows)
        /\ last.err = "scan" =>
                /\ last.scans \in DOMAIN last.input.rows
                /\ ~RowScans(last.scans)
                /\ \A i \in 1..(last.scans - 1) : RowScans(i)
                /\ last.query.isNil

C33_Witness ==
    /\ last.op = "Query" /\ last.rowsObtained /\ last.rowsClosed
    /\ last.err = "scan"
    /\ Len(last.input.rows) = 2
    /\ last.scans = 1

\* Whether entry e of known_hosts lists the bastion, by name or by address.
ListsBastion(e) ==
    \E i \in DOMAIN e.hosts : e.hosts[i] \in {BastionHostname.host, BastionRemote}

\* C32 as stated: the presented key is accepted exactly when known_hosts has
\* an entry that is not revoked, lists the host by name or by remote address
\* and has the identical key; an entry that lists neither decides nothing, so
\* without an entry for the host the check answers that the host is unknown.
C32_Original ==
    last.op = "knownHostsCallback" =>
        LET entries == last.input.entries
            mine == {i \in DOMAIN entries :
                        entries[i].marker # "revoked" /\ ListsBastion(entries[i])}
        IN  /\ last.err = "nil" <=> \E i \in mine : entries[i].key = last.input.key
            /\ mine = {} => last.err = "unknown_host"

\* The part of C31 that is about the editor: DBRun given a nil result without
\* an error returns no error and writes that there are no results.
DBRunTakesNil ==
    editor.handled = "nil" => editor.err = "nil" /\ editor.wrote = "no results"

\* C31 as stated: a front end that gets a nil result without an error from
\* Query finishes the command without an error and without reading a field
\* of the result; this holds for the query of the terminal front end and for
\* DBRun of the editor.
C31_Original ==
    /\ cli.handled = "nil" => cli.fault = "" /\ cli.printed # "error"
    /\ DBRunTakesNil

\* C39 as stated: the terminal loop ends only at the end of the input or at
\* the quit command; any other line, the empty one and the lone backslash
\* included, at most prints an error and the loop goes on, and the process is
\* never aborted.
C39_Original ==
    [][cli.pc = "loop" =>
            /\ cli'.pc \in {"loop", "return"}
            /\ cli'.pc = "return" => (cli'.read = "EOF" \/ cli'.kind = "quit")
            /\ cli'.fault = ""]_vars

====
